---- MODULE Spec2Model ----
(***************************************************************************)
(* Model of the device comparison screen, src/app/(tabs)/compare.jsx.      *)
(*                                                                         *)
(* The React component `Compare` is a state machine: its useState cells    *)
(* and the debounce ref are the variables, every event handler, timer      *)
(* callback and promise continuation is one action, and the useEffect      *)
(* that reconciles the slots with the navigation parameters is the action  *)
(* Reconcile, which React runs after every commit that changed one of its  *)
(* dependencies and before the next commit (effectPending): while the      *)
(* effect is pending no other handler runs.  State set in one handler,     *)
(* router.setParams included, is committed in one batch.                   *)
(***************************************************************************)
EXTENDS Integers, Sequences, FiniteSets, TLC

\* ------------------------------------------------------------------ bounds
MaxUserActions == 3     \* text changes, taps and outside navigations in one run
MaxInFlight == 2        \* detail requests awaiting their response at one time
MaxSearchInFlight == 2  \* overlapping search requests
MaxTimers == 2          \* timer handles the JS runtime hands out
MaxServerEdits == 1     \* posts edited on the server during one run

\* --------------------------------------------------------------- constants
Slots == {0, 1}
Undefined == "undefined"  \* JS undefined: an absent navigation parameter
EmptyText == <<>>         \* the JS string ""
NoHandle == 0             \* debounceTimeoutRefs.current[key] before any timer was set
Slugs == {"phone-a", "phone-b"}
Handles == 1 .. MaxTimers

\* Strings are sequences of characters, so that trim, toLowerCase and
\* includes are computed and not assumed.
Texts == { <<>>, <<" ">>, <<"i">>, <<"i", "p">> }

TitleOf(slug) == IF slug = "phone-a" THEN <<"I", "p">> ELSE <<"I", "o">>

\* A post as the content API returns it (id, title, slug, ...).
\* The content a post has when the session starts, and after an edit on the server
FirstContent == "v1"
EditedContent == "v2"

Post(slug) == [slug |-> slug, title |-> TitleOf(slug), content |-> FirstContent]
Posts == { Post(s) : s \in Slugs }
AllPosts == << Post("phone-a"), Post("phone-b") >>

\* ------------------------------------------------------------ JS helpers
IsSpace(c) == c = " "

RECURSIVE TrimStart(_)
TrimStart(s) ==
  IF s # <<>> /\ IsSpace(Head(s)) THEN TrimStart(Tail(s)) ELSE s

RECURSIVE TrimEnd(_)
TrimEnd(s) ==
  IF s # <<>> /\ IsSpace(s[Len(s)]) THEN TrimEnd(SubSeq(s, 1, Len(s) - 1)) ELSE s

\* String.prototype.trim
Trim_Identity(s) == s

Trim(s) == TrimEnd(TrimStart(s))

LowerChar(c) == IF c = "I" THEN "i" ELSE IF c = "P" THEN "p" ELSE IF c = "O" THEN "o" ELSE c

\* String.prototype.toLowerCase
ToLowerCase(s) == [k \in 1 .. Len(s) |-> LowerChar(s[k])]

\* String.prototype.includes
Includes(s, sub) ==
  \E k \in 0 .. (Len(s) - Len(sub)) : SubSeq(s, k + 1, k + Len(sub)) = sub

\* JS truthiness of a navigation parameter (a string or undefined)
Truthy(v) == v # Undefined /\ v # ""

\* JS null / undefined where a post is expected (selectedDevices[i], a cache miss)
NullPost == [slug |-> Undefined, title |-> <<>>, content |-> ""]
IsNull(post) == post = NullPost

\* -------------------------------------------------------------- variables
VARIABLES
  params,                    \* useLocalSearchParams(): device1, device2
  fetchedDevicesCache,       \* slug -> post, NullPost when not cached
  currentSearchResults,      \* the shared result list
  searchQueries,             \* text of the two inputs
  selectedDevices,           \* post or NullPost (null) per slot
  fetchingIndividualDetails, \* loading flag per slot
  debounceTimeoutRefs,       \* debounce key -> timer handle
  timers,                    \* JS runtime: the live timers (handle, arguments; history: slot)
  searchInFlight,            \* searchDevices requests awaiting their response, in issue order
  detailInFlight,            \* getDeviceBySlug requests awaiting their response, per slot and slug
  effectPending,             \* a commit changed a dependency of the reconciliation effect
  userActions,               \* user actions so far
  lastOp,                    \* history: the operation that produced this state
  burst,                     \* history: the text changes since a debounce timer last fired
  serverContent,             \* the server: current content of each post
  fnInput,                   \* argument of a function of the module studied on its own
  fnOutput,                  \* its result, once lastOp names the function
  searchLog,                 \* history: the searches issued, when recorded
  page                       \* the feed screen that is open, when one is

vars == << params, fetchedDevicesCache, currentSearchResults, searchQueries,
           selectedDevices, fetchingIndividualDetails, debounceTimeoutRefs,
           timers, searchInFlight, detailInFlight, effectPending, userActions,
           lastOp, burst,
          serverContent, fnInput, fnOutput, searchLog, page >>

\* ---------------------------------------------------------- content API
\* What one request to the GraphQL endpoint can come back with.
ResponseKinds == {"ok", "http_error", "graphql_errors", "transport_error"}

\* fetchGraphQL: the data of the response, or null (FALSE here: no data).
FetchGraphQLHasData(kind) ==
  IF kind = "transport_error" THEN FALSE      \* fetch() rejects, caught
  ELSE IF kind = "http_error" THEN FALSE      \* !response.ok, thrown and caught
  ELSE IF kind = "graphql_errors" THEN FALSE  \* jsonResponse.errors, thrown and caught
  ELSE TRUE                                   \* return jsonResponse.data

\* SEARCH_POSTS_QUERY answered by the server: the posts that match the query.
ServerSearch(query) ==
  SelectSeq(AllPosts, LAMBDA p : Includes(ToLowerCase(p.title), ToLowerCase(Trim(query))))

\* ------------------------------------------------------------- debounce
\* customDebounce keeps its timer under debounceTimeoutRefs.current[func.name];
\* func is the anonymous arrow (query) => searchPosts(query), whose name is "".
DebounceKeys == {"", "slot0", "slot1"}

DebounceKey_PerSlot(index) == IF index = 0 THEN "slot0" ELSE "slot1"

DebounceKey(index) == ""

LiveHandles(ts) == { t.handle : t \in ts }

ClearTimeout_Forgotten(ts, handle) == ts

\* clearTimeout(handle): a no-op for a handle that is not live
ClearTimeout(ts, handle) == { t \in ts : t.handle # handle }

\* setTimeout hands out a handle that no live timer has
NewHandle(ts) == CHOOSE h \in Handles \ LiveHandles(ts) :
                   \A g \in Handles \ LiveHandles(ts) : h <= g

NoOp == [op |-> "init", slot |-> -1, slug |-> Undefined]
NoBurst == [n |-> 0, last |-> EmptyText, slot |-> -1, nonBlank |-> TRUE, nonEmpty |-> TRUE,
            cancelled |-> -1, fired |-> FALSE]

\* ------------------------------------------------------------------ Init
\* The state after the first render: the useState initial values.  The tab
\* bar opens the screen without parameters (router.push of mobile.jsx); a
\* link that carries device1 or device2 is the action NavigateParams.
\* No function is studied on its own in the runs of the screen.
NoValue == "none"

\* The Compare component right after its first render
\* The comparison screen is open, no feed screen
NoPage == [screen |-> "compare"]

\* The history of searches: whether it is recorded, whether the list was
\* emptied by a cleared text, a selection or a removal with no text entered
\* since, the text of the search issued last and what became of it.
LogOff == [on |-> FALSE, quiet |-> FALSE, issued |-> <<>>, outcome |-> "none"]

LogOn == [LogOff EXCEPT !.on = TRUE]

LogQuiet(quiet) == IF searchLog.on THEN [searchLog EXCEPT !.quiet = quiet] ELSE searchLog

LogIssued(query) ==
  IF searchLog.on THEN [searchLog EXCEPT !.issued = query, !.outcome = "pending"]
                  ELSE searchLog

\* The last element of searchInFlight is the search issued last while that
\* search is pending.
LogCompleted(k, hasNodes) ==
  IF searchLog.on /\ searchLog.outcome = "pending" /\ k = Len(searchInFlight)
    THEN [searchLog EXCEPT !.outcome = IF hasNodes THEN "ok" ELSE "failed"]
    ELSE searchLog

ComponentInitWith(initialParams) ==
  /\ params = initialParams
  /\ fetchedDevicesCache = [s \in Slugs |-> NullPost]
  /\ currentSearchResults = <<>>
  /\ searchQueries = [i \in Slots |-> EmptyText]
  /\ selectedDevices = [i \in Slots |-> NullPost]
  /\ fetchingIndividualDetails = [i \in Slots |-> FALSE]
  /\ debounceTimeoutRefs = [k \in DebounceKeys |-> NoHandle]
  /\ timers = {}
  /\ searchInFlight = <<>>
  /\ detailInFlight = [i \in Slots |-> [s \in Slugs |-> 0]]
  /\ effectPending = TRUE
  /\ userActions = 0
  /\ lastOp = NoOp
  /\ burst = NoBurst
  /\ serverContent = [s \in Slugs |-> FirstContent]

\* the screen opened without navigation parameters
ComponentInit == ComponentInitWith([i \in Slots |-> Undefined])

Init ==
  /\ ComponentInit
  /\ searchLog = LogOff
  /\ page = NoPage
  /\ fnInput = NoValue
  /\ fnOutput = NoValue

\* ------------------------------------------------------------- searching
\* History: a burst is the run of text changes that each arrive while the
\* debounce timer of the previous one is still live, so less than the delay
\* after it; a change that finds no live timer starts a new burst.
\* cancelledSlot is the slot whose live timer this change cancelled.
BurstAfter(text, index, cancelledSlot) ==
  LET fresh == timers = {} IN
  [n |-> IF fresh THEN 1 ELSE IF burst.n < 2 THEN burst.n + 1 ELSE 2,
   last |-> text,
   slot |-> index,
   nonBlank |-> (fresh \/ burst.nonBlank) /\ Trim(text) # EmptyText,
   nonEmpty |-> (fresh \/ burst.nonEmpty) /\ text # EmptyText,
   cancelled |-> cancelledSlot,
   fired |-> FALSE]

ResultsAfterBlankText_Kept == currentSearchResults

\* setCurrentSearchResults([]) of line 262
ResultsAfterBlankText == <<>>

\* handleSearchInputChange(text, index)
HandleSearchInputChange(text, index) ==
  /\ ~effectPending
  /\ text # searchQueries[index]        \* onChangeText fires on a change
  /\ userActions < MaxUserActions
  /\ userActions' = userActions + 1
  /\ searchQueries' = [searchQueries EXCEPT ![index] = text]
  /\ IF Trim(text) # EmptyText
       THEN \* debouncedSearchHandler(text)
            LET key == DebounceKey(index)
                kept == ClearTimeout(timers, debounceTimeoutRefs[key])
                h == NewHandle(kept)
            IN /\ Handles \ LiveHandles(kept) # {}
               /\ timers' = kept \cup {[handle |-> h, args |-> <<text>>, slot |-> index]}
               /\ debounceTimeoutRefs' = [debounceTimeoutRefs EXCEPT ![key] = h]
               /\ burst' = BurstAfter(text, index,
                             IF kept # timers
                               THEN (CHOOSE t \in timers \ kept : TRUE).slot ELSE -1)
               /\ UNCHANGED currentSearchResults
       ELSE /\ currentSearchResults' = ResultsAfterBlankText
            /\ burst' = BurstAfter(text, index, -1)
            /\ UNCHANGED << timers, debounceTimeoutRefs >>
  /\ lastOp' = [op |-> "input", slot |-> index, slug |-> Undefined]
  /\ searchLog' = LogQuiet(text = EmptyText)
  /\ UNCHANGED << page, serverContent, fnInput, fnOutput, params, fetchedDevicesCache, selectedDevices,
                  fetchingIndividualDetails, searchInFlight, detailInFlight,
                  effectPending >>

\* The delay of a live timer elapses: func.apply(context, args), that is
\* searchPosts(query) up to its await.
DebounceTimerFires(handle) ==
  /\ ~effectPending
  /\ \E t \in timers :
       /\ t.handle = handle
       /\ timers' = timers \ {t}
       /\ LET query == t.args[1]
          IN IF Trim(query) = EmptyText
               THEN /\ currentSearchResults' = <<>>
                    /\ UNCHANGED << searchInFlight, searchLog >>
               ELSE /\ Len(searchInFlight) < MaxSearchInFlight
                    /\ searchInFlight' = Append(searchInFlight, query)
                    /\ searchLog' = LogIssued(query)
                    /\ UNCHANGED currentSearchResults
       /\ lastOp' = [op |-> "timer", slot |-> t.slot, slug |-> Undefined]
  /\ burst' = [burst EXCEPT !.fired = TRUE]
  /\ UNCHANGED << page, serverContent, fnInput, fnOutput, params, fetchedDevicesCache, searchQueries, selectedDevices,
                  fetchingIndividualDetails, debounceTimeoutRefs, detailInFlight,
                  effectPending, userActions >>

RemoveAt(seq, k) == SubSeq(seq, 1, k - 1) \o SubSeq(seq, k + 1, Len(seq))

\* What a SEARCH_POSTS_QUERY request can come back with: the kinds above,
\* where "ok" carries data.posts.nodes, and "no_nodes" for data without it.
SearchKinds == ResponseKinds \cup {"no_nodes"}

\* data && data.posts && data.posts.nodes
SearchHasNodes(kind) == kind # "no_nodes" /\ FetchGraphQLHasData(kind)

ResultsAfterFailedSearch_Kept == currentSearchResults

\* setCurrentSearchResults([]) of lines 160 and 164
ResultsAfterFailedSearch == <<>>

\* The response of the k-th search request in flight arrives: searchPosts
\* after its await.
SearchResponse(k, kind) ==
  /\ ~effectPending
  /\ k \in 1 .. Len(searchInFlight)
  /\ currentSearchResults' =
       IF SearchHasNodes(kind) THEN ServerSearch(searchInFlight[k])
                               ELSE ResultsAfterFailedSearch
  /\ searchInFlight' = RemoveAt(searchInFlight, k)
  /\ lastOp' = [op |-> IF SearchHasNodes(kind) THEN "search_ok" ELSE "search_failed",
                slot |-> -1, slug |-> Undefined]
  /\ searchLog' = LogCompleted(k, SearchHasNodes(kind))
  /\ UNCHANGED << page, serverContent, fnInput, fnOutput, params, fetchedDevicesCache, searchQueries, selectedDevices,
                  fetchingIndividualDetails, debounceTimeoutRefs, timers,
                  detailInFlight, effectPending, userActions, burst >>

\* ------------------------------------------------------ device details
\* What a GET_POST_BY_SLUG_QUERY request can come back with: the kinds
\* above, where "ok" carries the post, and "not_found" for data.post null.
DetailKinds == ResponseKinds \cup {"not_found"}

\* const post = data?.post
DetailHasPost(kind) == kind # "not_found" /\ FetchGraphQLHasData(kind)

\* fetchDeviceDetails(deviceSlug, index) up to its await, as the values it
\* gives to slot `index`.  Line 176: a cache hit assigns the cached post and
\* returns; a miss raises the loading flag and issues the request.
CacheHit_Never(deviceSlug) == FALSE

CacheHit(deviceSlug) == ~IsNull(fetchedDevicesCache[deviceSlug])

FetchSelected(deviceSlug, index) ==
  IF CacheHit(deviceSlug) THEN fetchedDevicesCache[deviceSlug]
                          ELSE selectedDevices[index]

FetchFetching(deviceSlug, index) ==
  IF CacheHit(deviceSlug) THEN fetchingIndividualDetails[index] ELSE TRUE

FetchInFlight(deviceSlug, index) ==
  IF CacheHit(deviceSlug)
    THEN detailInFlight[index]
    ELSE [detailInFlight[index] EXCEPT ![deviceSlug] = @ + 1]

\* the detail requests awaiting their response
RECURSIVE SumOver(_, _)
SumOver(f, dom) ==
  IF dom = {} THEN 0
  ELSE LET x == CHOOSE y \in dom : TRUE IN f[x] + SumOver(f, dom \ {x})

InFlightOfSlot(inFlight, index) == SumOver(inFlight[index], Slugs)
InFlightTotal(inFlight) == InFlightOfSlot(inFlight, 0) + InFlightOfSlot(inFlight, 1)

\* data.post of a getDeviceBySlug response: the post as the server has it now
ServerPost(slug) == [Post(slug) EXCEPT !.content = serverContent[slug]]

SelectionAfterFailure_Kept(index) == selectedDevices

\* setSelectedDevices of lines 204-208 and 212-216: newSelected[index] = null
SelectionAfterFailure(index) == [selectedDevices EXCEPT ![index] = NullPost]

LoadingAfterResponse_SharedFlag(index) == [i \in Slots |-> FALSE]

\* setFetchingIndividualDetails of the finally block: newFetching[index] = false
LoadingAfterResponse(index) == [fetchingIndividualDetails EXCEPT ![index] = FALSE]

\* The response of a detail request for `deviceSlug`, issued for slot
\* `index`, arrives: fetchDeviceDetails after its await.
DetailResponse(deviceSlug, index, kind) ==
  /\ ~effectPending
  /\ detailInFlight[index][deviceSlug] > 0
  /\ detailInFlight' = [detailInFlight EXCEPT ![index][deviceSlug] = @ - 1]
  /\ IF DetailHasPost(kind)
       THEN /\ fetchedDevicesCache' =
                 [fetchedDevicesCache EXCEPT ![deviceSlug] = ServerPost(deviceSlug)]
            /\ selectedDevices' = [selectedDevices EXCEPT ![index] = ServerPost(deviceSlug)]
       ELSE /\ selectedDevices' = SelectionAfterFailure(index)
            /\ UNCHANGED fetchedDevicesCache
  /\ fetchingIndividualDetails' = LoadingAfterResponse(index)
  /\ effectPending' = TRUE     \* selectedDevices is a new array
  /\ lastOp' = [op |-> IF DetailHasPost(kind) THEN "detail_ok" ELSE "detail_failed",
                slot |-> index, slug |-> deviceSlug]
  /\ UNCHANGED << page, searchLog, serverContent, fnInput, fnOutput, params, currentSearchResults, searchQueries, debounceTimeoutRefs,
                  timers, searchInFlight, userActions, burst >>

\* The reconciliation effect (lines 229-245), run once per commit that
\* changed device1, device2, selectedDevices or fetchDeviceDetails.
NeedsFetch(idx) ==
  /\ Truthy(params[idx])
  /\ (IsNull(selectedDevices[idx]) \/ selectedDevices[idx].slug # params[idx])

NeedsClear_Never(idx) == FALSE

NeedsClear_AnySelection(idx) == ~IsNull(selectedDevices[idx])

NeedsClear(idx) == ~Truthy(params[idx]) /\ ~IsNull(selectedDevices[idx])

\* the requests in flight once the effect has made its fetchDeviceDetails calls
ReconcileInFlight ==
  [idx \in Slots |->
     IF NeedsFetch(idx) THEN FetchInFlight(params[idx], idx) ELSE detailInFlight[idx]]

Reconcile ==
  /\ effectPending
  /\ selectedDevices' =
       [idx \in Slots |->
          IF NeedsFetch(idx) THEN FetchSelected(params[idx], idx)
          ELSE IF NeedsClear(idx) THEN NullPost
          ELSE selectedDevices[idx]]
  /\ fetchingIndividualDetails' =
       [idx \in Slots |->
          IF NeedsFetch(idx) THEN FetchFetching(params[idx], idx)
          ELSE fetchingIndividualDetails[idx]]
  /\ InFlightTotal(ReconcileInFlight) <= MaxInFlight
  /\ detailInFlight' = ReconcileInFlight
  \* every setSelectedDevices call makes a new array, which re-runs the effect
  /\ effectPending' =
       \E idx \in Slots : \/ (NeedsFetch(idx) /\ CacheHit(params[idx]))
                           \/ (~NeedsFetch(idx) /\ NeedsClear(idx))
  /\ lastOp' = [op |-> "reconcile", slot |-> -1, slug |-> Undefined]
  /\ UNCHANGED << page, searchLog, serverContent, fnInput, fnOutput, params, fetchedDevicesCache, currentSearchResults, searchQueries,
                  debounceTimeoutRefs, timers, searchInFlight, userActions, burst >>

\* The results the list under input `index` offers (renderSearchResults
\* and the slot body, lines 509-525): none while the slot is loading or
\* holds a device or has an empty query.
OfferedResults(index) ==
  IF \/ fetchingIndividualDetails[index]
     \/ ~IsNull(selectedDevices[index])
     \/ searchQueries[index] = EmptyText
    THEN {}
    ELSE { currentSearchResults[k] : k \in
             { j \in 1 .. Len(currentSearchResults) :
                 Includes(ToLowerCase(currentSearchResults[j].title),
                          ToLowerCase(searchQueries[index])) } }

\* currentSearchResults.filter(...) of renderSearchResults
FilteredResults(query) ==
  SelectSeq(currentSearchResults,
            LAMBDA device : Includes(ToLowerCase(device.title), ToLowerCase(query)))

\* renderSearchResults(query, index), lines 337-376, as what it shows
RenderSearchResults(query, index) ==
  IF query = EmptyText \/ ~IsNull(selectedDevices[index]) THEN "nothing"
  ELSE IF fetchingIndividualDetails[index] THEN "loading"
  ELSE IF Len(FilteredResults(query)) > 0 THEN "results"
  ELSE "no_results"

SlotBody_ResultsFirst(index) ==
  IF searchQueries[index] # EmptyText /\ Len(FilteredResults(searchQueries[index])) > 0
    THEN "results"
  ELSE IF fetchingIndividualDetails[index] THEN "loading"
  ELSE IF ~IsNull(selectedDevices[index]) THEN "card"
  ELSE "nothing"

\* What the screen shows under input `index`, lines 509-525
SlotBody(index) ==
  IF fetchingIndividualDetails[index] THEN "loading"
  ELSE IF ~IsNull(selectedDevices[index]) THEN "card"
  ELSE IF searchQueries[index] # EmptyText
    THEN RenderSearchResults(searchQueries[index], index)
  ELSE "nothing"

\* the navigation parameter device3, which the two-slot screen does not read
Device3 == 2

\* if (newQuery.device3) delete newQuery.device3
WithoutDevice3(newQuery) ==
  IF Device3 \in DOMAIN newQuery /\ Truthy(newQuery[Device3])
    THEN [k \in DOMAIN newQuery \ {Device3} |-> newQuery[k]]
    ELSE newQuery

NewQuery_Fresh(index, value) ==
  [k \in DOMAIN params |-> IF k = index THEN value ELSE Undefined]

\* newQuery = { ...localSearchParams }; newQuery[`device${index + 1}`] = value;
\* then the removal of device3 from the copy
NewQuery(index, value) == WithoutDevice3([params EXCEPT ![index] = value])

\* router.setParams(newQuery): the parameters given are merged into those of
\* the route; one given as undefined is removed, one not given is kept.
SetParams(newQuery) ==
  [k \in DOMAIN params |-> IF k \in DOMAIN newQuery THEN newQuery[k] ELSE params[k]]

\* handleSelectDevice(device, index): a tap on an offered result
ParamOnSelect_Unwritten(device, index) == params[index]

\* newQuery[`device${index + 1}`] = slug
ParamOnSelect(device, index) == device.slug

HandleSelectDevice(device, index) ==
  /\ ~effectPending
  /\ device \in OfferedResults(index)
  /\ selectedDevices' = [selectedDevices EXCEPT ![index] = FetchSelected(device.slug, index)]
  /\ fetchingIndividualDetails' =
       [fetchingIndividualDetails EXCEPT ![index] = FetchFetching(device.slug, index)]
  /\ detailInFlight' = [detailInFlight EXCEPT ![index] = FetchInFlight(device.slug, index)]
  /\ InFlightTotal(detailInFlight') <= MaxInFlight
  /\ userActions < MaxUserActions
  /\ userActions' = userActions + 1
  /\ searchQueries' = [searchQueries EXCEPT ![index] = EmptyText]
  /\ currentSearchResults' = <<>>
  /\ params' = SetParams(NewQuery(index, ParamOnSelect(device, index)))
  /\ effectPending' = TRUE
  /\ lastOp' = [op |-> "select", slot |-> index, slug |-> device.slug]
  /\ searchLog' = LogQuiet(TRUE)
  /\ UNCHANGED << page, serverContent, fnInput, fnOutput, fetchedDevicesCache, debounceTimeoutRefs, timers, searchInFlight,
                  burst >>

\* handleRemoveDevice(index): a tap on the close button of the slot's card,
\* which is rendered when the slot holds a device and is not loading.
RemovedParam_EmptyString(index) == ""

RemovedParam(index) == Undefined

HandleRemoveDevice(index) ==
  /\ ~effectPending
  /\ ~fetchingIndividualDetails[index]
  /\ ~IsNull(selectedDevices[index])
  /\ userActions < MaxUserActions
  /\ userActions' = userActions + 1
  /\ selectedDevices' = [selectedDevices EXCEPT ![index] = NullPost]
  /\ params' = SetParams(NewQuery(index, RemovedParam(index)))
  /\ searchQueries' = [searchQueries EXCEPT ![index] = EmptyText]
  /\ currentSearchResults' = <<>>
  /\ effectPending' = TRUE
  /\ lastOp' = [op |-> "remove", slot |-> index, slug |-> Undefined]
  /\ searchLog' = LogQuiet(TRUE)
  /\ UNCHANGED << page, serverContent, fnInput, fnOutput, fetchedDevicesCache, fetchingIndividualDetails, debounceTimeoutRefs,
                  timers, searchInFlight, detailInFlight, burst >>

\* The screen's location changes from outside the component (a shared link
\* is opened, back navigation): device1 and device2 take new values.
NavigateParams(newParams) ==
  /\ ~effectPending
  /\ userActions < MaxUserActions
  /\ \E i \in Slots : newParams[i] # params[i]
  /\ params' = [k \in DOMAIN params |-> IF k \in Slots THEN newParams[k] ELSE params[k]]
  /\ userActions' = userActions + 1
  /\ effectPending' = TRUE
  /\ lastOp' = [op |-> "navigate", slot |-> -1, slug |-> Undefined]
  /\ UNCHANGED << page, searchLog, serverContent, fnInput, fnOutput, fetchedDevicesCache, currentSearchResults, searchQueries,
                  selectedDevices, fetchingIndividualDetails, debounceTimeoutRefs,
                  timers, searchInFlight, detailInFlight, burst >>

\* ------------------------------------------------------------------ Next
Next ==
  \/ \E text \in Texts, index \in Slots : HandleSearchInputChange(text, index)
  \/ \E handle \in Handles : DebounceTimerFires(handle)
  \/ \E k \in 1 .. MaxSearchInFlight, kind \in SearchKinds : SearchResponse(k, kind)
  \/ \E device \in Posts, index \in Slots : HandleSelectDevice(device, index)
  \/ \E index \in Slots : HandleRemoveDevice(index)
  \/ \E newParams \in [Slots -> Slugs \cup {Undefined}] : NavigateParams(newParams)
  \/ Reconcile
  \/ \E deviceSlug \in Slugs, index \in Slots, kind \in DetailKinds :
       DetailResponse(deviceSlug, index, kind)

Spec == Init /\ [][Next]_vars

\* The executions in which every detail request is answered with the post:
\* React runs a pending effect, and no response fails or stays out forever.
\* The user-action budget makes the navigation parameters stop changing.
NextAnswered ==
  \/ \E text \in Texts, index \in Slots : HandleSearchInputChange(text, index)
  \/ \E handle \in Handles : DebounceTimerFires(handle)
  \/ \E k \in 1 .. MaxSearchInFlight, kind \in SearchKinds : SearchResponse(k, kind)
  \/ \E device \in Posts, index \in Slots : HandleSelectDevice(device, index)
  \/ \E index \in Slots : HandleRemoveDevice(index)
  \/ \E newParams \in [Slots -> Slugs \cup {Undefined}] : NavigateParams(newParams)
  \/ Reconcile
  \/ \E deviceSlug \in Slugs, index \in Slots : DetailResponse(deviceSlug, index, "ok")

SpecAnswered ==
  /\ Init
  /\ [][NextAnswered]_vars
  /\ WF_vars(Reconcile)
  /\ \A deviceSlug \in Slugs, index \in Slots :
       WF_vars(DetailResponse(deviceSlug, index, "ok"))

\* ======================================================== claims C1, C7
SearchCallIssued == Len(searchInFlight') > Len(searchInFlight)

PendingTimerHolds(text) == \E t \in timers : timers = {t} /\ t.args = <<text>>

\* C1 (as amended): for a burst of text changes that are all non-empty after
\* trimming, each less than the debounce delay after the previous one, one
\* timer is pending during the burst with the text of the last change, and
\* the only searchDevices call the burst issues is the one that timer makes,
\* with the text of the last change; no timer is left after it.
C1_BurstIssuesOneSearchOfLastText ==
  /\ [](burst.n > 0 /\ burst.nonBlank /\ ~burst.fired => PendingTimerHolds(burst.last))
  /\ [][SearchCallIssued =>
          /\ ~burst.fired
          /\ timers' = {}
          /\ (burst.nonBlank => searchInFlight' = Append(searchInFlight, burst.last))]_vars

\* C1 witness: the timer of a burst of at least two non-blank changes has
\* fired and issued the one search, for the last text.
C1_Witness ==
  /\ lastOp.op = "timer"
  /\ burst.n = 2 /\ burst.nonBlank /\ burst.fired
  /\ searchInFlight = <<burst.last>>
  /\ timers = {}

\* C1 as stated: the same for a burst of changes whose text is non-empty
\* (whitespace-only texts included): a timer with the last text is pending.
C1_Original_NonEmptyBurst ==
  burst.n > 0 /\ burst.nonEmpty /\ ~burst.fired => PendingTimerHolds(burst.last)

SlotConsistent(i) ==
  \/ (~Truthy(params[i]) /\ IsNull(selectedDevices[i]))
  \/ (~IsNull(selectedDevices[i]) /\ selectedDevices[i].slug = params[i])

\* Slot i's parameter names a slug that its selection does not have.
SlotWantsSlug(i) ==
  /\ Truthy(params[i])
  /\ (IsNull(selectedDevices[i]) \/ selectedDevices[i].slug # params[i])

\* C2: a run of the reconciliation effect leaves a slot that agrees with its
\* parameter alone (no detail request, no change of its selection or loading
\* flag) and clears a slot whose parameter is absent; when both slots agree
\* it sets no state at all, so the effect is not triggered again.
C2_ReconcileIdempotent ==
  [][effectPending =>
       /\ \A i \in Slots :
            /\ SlotConsistent(i) =>
                 /\ detailInFlight'[i] = detailInFlight[i]
                 /\ selectedDevices'[i] = selectedDevices[i]
                 /\ fetchingIndividualDetails'[i] = fetchingIndividualDetails[i]
            /\ (~Truthy(params[i]) /\ ~IsNull(selectedDevices[i])) => IsNull(selectedDevices'[i])
       /\ (\A i \in Slots : SlotConsistent(i)) =>
            /\ ~effectPending'
            /\ UNCHANGED << params, fetchedDevicesCache, currentSearchResults, searchQueries,
                            selectedDevices, fetchingIndividualDetails, detailInFlight,
                            searchInFlight, timers >>]_vars

\* C2 witness: device2 was removed from the parameters while device1 is
\* unchanged and selected, and the effect is about to run.
C2_Witness ==
  /\ lastOp.op = "navigate" /\ effectPending
  /\ ~IsNull(selectedDevices[0]) /\ SlotConsistent(0)
  /\ params[1] = Undefined /\ ~IsNull(selectedDevices[1])

\* C3 (as stated): after a detail request for slug s fails, no further
\* request for s is issued unless the step is a user action or a navigation.
C3_NoAutomaticRetry ==
  [][lastOp.op = "detail_failed" =>
       \/ userActions' # userActions
       \/ \A i \in Slots : detailInFlight'[i][lastOp.slug] <= detailInFlight[i][lastOp.slug]]_vars

\* C4 (as stated): when the response for slug s requested for slot i
\* arrives with a post, the cache entry of s is written, and the slot takes
\* the post only if its parameter is still s; otherwise it is left unchanged.
C4_LateResponseKeepsSlot ==
  [][lastOp'.op = "detail_ok" =>
       LET i == lastOp'.slot
           s == lastOp'.slug
       IN /\ fetchedDevicesCache'[s] = Post(s)
          /\ IF params[i] = s THEN selectedDevices'[i] = Post(s)
                              ELSE selectedDevices'[i] = selectedDevices[i]]_vars

\* C6: a run of the reconciliation effect starts, for every slot whose
\* parameter names a slug its selection does not have, a detail fetch of that
\* slug for that slot (answered from the cache when the slug is cached, a
\* request otherwise), and clears every slot that holds a selection while its
\* parameter is absent; the post a request returns is assigned to its slot.
C6_ReconciliationRule ==
  [][/\ effectPending =>
          \A i \in Slots :
            /\ SlotWantsSlug(i) =>
                 IF ~IsNull(fetchedDevicesCache[params[i]])
                   THEN selectedDevices'[i] = fetchedDevicesCache[params[i]]
                   ELSE /\ detailInFlight'[i][params[i]] = detailInFlight[i][params[i]] + 1
                        /\ fetchingIndividualDetails'[i]
            /\ (~Truthy(params[i]) /\ ~IsNull(selectedDevices[i])) => IsNull(selectedDevices'[i])
     /\ lastOp'.op = "detail_ok" => selectedDevices'[lastOp'.slot] = Post(lastOp'.slug)]_vars

\* C6 witness: the parameters changed so that slot 0 names a slug that is
\* neither selected nor cached and slot 1 lost its parameter while selected.
C6_Witness ==
  /\ lastOp.op = "navigate" /\ effectPending
  /\ Truthy(params[0]) /\ IsNull(selectedDevices[0]) /\ IsNull(fetchedDevicesCache[params[0]])
  /\ params[1] = Undefined /\ ~IsNull(selectedDevices[1])

\* C8: after handleSelectDevice(device, i) the query of slot i is "", the
\* shared result list is empty and parameter device(i+1) is device.slug.
C8_SelectClearsAndWritesParam ==
  lastOp.op = "select" =>
    /\ searchQueries[lastOp.slot] = EmptyText
    /\ currentSearchResults = <<>>
    /\ params[lastOp.slot] = lastOp.slug

\* C8 witness: a result was selected for slot 1 while slot 0 keeps its query.
C8_Witness ==
  /\ lastOp.op = "select" /\ lastOp.slot = 1
  /\ searchQueries[0] # EmptyText

\* fetchDeviceDetails(s, i) is called in this step: by the effect, or by
\* handleSelectDevice.
FetchCalledFor(i, s) ==
  \/ (effectPending /\ params[i] = s /\ SlotWantsSlug(i))
  \/ (lastOp'.op = "select" /\ lastOp'.slot = i /\ lastOp'.slug = s)

\* C9: fetchDeviceDetails(s, i) with s in the cache issues no request,
\* assigns the cached post to slot i in the same step and leaves the slot's
\* loading flag as it was.
C9_CacheHitBypassesNetwork ==
  [][\A i \in Slots, s \in Slugs :
       (FetchCalledFor(i, s) /\ ~IsNull(fetchedDevicesCache[s])) =>
         /\ selectedDevices'[i] = fetchedDevicesCache[s]
         /\ detailInFlight'[i] = detailInFlight[i]
         /\ fetchingIndividualDetails'[i] = fetchingIndividualDetails[i]]_vars

\* C9 witness: a cached device was selected from the result list: the slot
\* holds it at once, is not loading and has no request in flight.
C9_Witness ==
  /\ lastOp.op = "select"
  /\ selectedDevices[lastOp.slot] = fetchedDevicesCache[lastOp.slug]
  /\ ~IsNull(selectedDevices[lastOp.slot])
  /\ ~fetchingIndividualDetails[lastOp.slot]
  /\ InFlightTotal(detailInFlight) = 0

\* C10: after handleRemoveDevice(i) slot i holds no device, its query is "",
\* the shared result list is empty and parameter device(i+1) is undefined.
C10_RemoveClearsSlotAndParam ==
  lastOp.op = "remove" =>
    /\ IsNull(selectedDevices[lastOp.slot])
    /\ searchQueries[lastOp.slot] = EmptyText
    /\ currentSearchResults = <<>>
    /\ params[lastOp.slot] = Undefined

\* C10 witness: the device of slot 0 was removed while slot 1 keeps its own.
C10_Witness ==
  /\ lastOp.op = "remove" /\ lastOp.slot = 0
  /\ ~IsNull(selectedDevices[1]) /\ Truthy(params[1])

\* ------------------------------------------------------------ claim C5
\* Slot i holds a device exactly when its parameter is present, and then the
\* device of that slug.
SlotSettled(i) ==
  /\ IsNull(selectedDevices[i]) <=> params[i] = Undefined
  /\ ~IsNull(selectedDevices[i]) => selectedDevices[i].slug = params[i]

\* The run has reached the bound on requests in flight: the effect would
\* issue more requests than MaxInFlight allows, and the model stops there.
BoundReached == effectPending /\ InFlightTotal(ReconcileInFlight) > MaxInFlight

\* C5: when the parameters stop changing and every detail request returns
\* its device, a state is reached and kept in which every slot holds a
\* device exactly when its parameter is present, the device of that slug.
C5_EventuallyConsistent ==
  <>[](BoundReached \/ \A i \in Slots : SlotSettled(i))

\* C5 witness: no user action is left, nothing is in flight or pending, and
\* the slots agree with the parameters, one of them holding a device.
C5_Witness ==
  /\ userActions = MaxUserActions
  /\ ~effectPending /\ InFlightTotal(detailInFlight) = 0
  /\ lastOp.op = "reconcile"
  /\ \A i \in Slots : SlotSettled(i)
  /\ \E i \in Slots : ~IsNull(selectedDevices[i])

\* ================================================= the server edits posts
\* An editor changes the content of a post on the server during the session.
ServerEdit(slug) ==
  /\ ~effectPending
  /\ Cardinality({s \in Slugs : serverContent[s] # FirstContent}) < MaxServerEdits
  /\ serverContent[slug] = FirstContent
  /\ serverContent' = [serverContent EXCEPT ![slug] = EditedContent]
  /\ lastOp' = [op |-> "server_edit", slot |-> -1, slug |-> slug]
  /\ UNCHANGED << page, searchLog, params, fetchedDevicesCache, currentSearchResults, searchQueries,
                  selectedDevices, fetchingIndividualDetails, debounceTimeoutRefs, timers,
                  searchInFlight, detailInFlight, effectPending, userActions, burst,
                  fnInput, fnOutput >>

NextEdited ==
  \/ \E text \in Texts, index \in Slots : HandleSearchInputChange(text, index)
  \/ \E handle \in Handles : DebounceTimerFires(handle)
  \/ \E k \in 1 .. MaxSearchInFlight, kind \in SearchKinds : SearchResponse(k, kind)
  \/ \E device \in Posts, index \in Slots : HandleSelectDevice(device, index)
  \/ \E index \in Slots : HandleRemoveDevice(index)
  \/ \E newParams \in [Slots -> Slugs \cup {Undefined}] : NavigateParams(newParams)
  \/ Reconcile
  \/ \E deviceSlug \in Slugs, index \in Slots, kind \in DetailKinds :
       DetailResponse(deviceSlug, index, kind)
  \/ \E slug \in Slugs : ServerEdit(slug)

SpecEdited == Init /\ [][NextEdited]_vars

\* ====================================================== fetchGraphQL alone
\* An HTTP exchange as fetchGraphQL sees it: fetch() rejects, or resolves
\* with a status and a body that is JSON {data, errors} or is not JSON.
StatusCodes == {200, 201, 301, 404, 500}

DataValues == {Undefined, "null", "data-a", "data-b"}

ErrorsValues ==
  { [kind |-> "absent", items |-> <<>>],
    [kind |-> "null",   items |-> <<>>],
    [kind |-> "array",  items |-> <<>>],
    [kind |-> "array",  items |-> <<"boom">>],
    [kind |-> "array",  items |-> <<"", "boom">>] }

NotJson == [json |-> FALSE, data |-> Undefined, errors |-> [kind |-> "absent", items |-> <<>>]]

Bodies == [json : {TRUE}, data : DataValues, errors : ErrorsValues] \cup {NotJson}

Rejected == [rejects |-> TRUE, status |-> 0, body |-> NotJson]

Exchanges == [rejects : {FALSE}, status : StatusCodes, body : Bodies] \cup {Rejected}

\* response.ok
ResponseOk(status) == status >= 200 /\ status <= 299

\* if (jsonResponse.errors): absent and null are falsy, every array is truthy
ErrorsTruthy(errors) == errors.kind = "array"

Returns(v) == [thrown |-> FALSE, error |-> "", value |-> v]

Throws(e) == [thrown |-> TRUE, error |-> e, value |-> Undefined]

\* The try block of fetchGraphQL
FetchGraphQLTry(x) ==
  IF x.rejects THEN Throws("fetch rejected")
  ELSE IF ~ResponseOk(x.status) THEN Throws("HTTP error")
  ELSE IF ~x.body.json THEN Throws("SyntaxError")
  ELSE IF ErrorsTruthy(x.body.errors)
    THEN IF Len(x.body.errors.items) = 0
           THEN Throws("TypeError")       \* errors[0].message of an empty array
           ELSE Throws("GraphQL error")
  ELSE Returns(x.body.data)

\* fetchGraphQL(query, variables): the try block under its catch
FetchGraphQL(x) ==
  LET r == FetchGraphQLTry(x)
  IN  IF r.thrown THEN [raised |-> FALSE, value |-> "null"]
                  ELSE [raised |-> FALSE, value |-> r.value]

InitFetchGraphQL ==
  /\ ComponentInit
  /\ searchLog = LogOff
  /\ page = NoPage
  /\ fnInput \in Exchanges
  /\ fnOutput = NoValue

CallFetchGraphQL ==
  /\ lastOp.op = "init"
  /\ fnOutput' = FetchGraphQL(fnInput)
  /\ lastOp' = [op |-> "fetchGraphQL", slot |-> -1, slug |-> Undefined]
  /\ UNCHANGED << page, searchLog, params, fetchedDevicesCache, currentSearchResults, searchQueries,
                  selectedDevices, fetchingIndividualDetails, debounceTimeoutRefs, timers,
                  searchInFlight, detailInFlight, effectPending, userActions, burst,
                  serverContent, fnInput >>

NextFetchGraphQL == CallFetchGraphQL

SpecFetchGraphQL == InitFetchGraphQL /\ [][NextFetchGraphQL]_vars

\* ============================================== extractSpecifications alone
\* Post content is a sequence of tokens: tags, whitespace and words (words
\* hold no "<", ">" or whitespace).
HeadingOpenTags == {"<h2>", "<h3>", "<h4>"}

HeadingCloseTags_WithH5 == {"</h2>", "</h3>", "</h4>", "</h5>"}

HeadingCloseTags == {"</h2>", "</h3>", "</h4>"}

Tags ==
  HeadingOpenTags \cup HeadingCloseTags \cup
  { "<figure>", "</figure>", "<table>", "</table>", "<tbody>", "</tbody>",
    "<tr>", "</tr>", "<td>", "</td>", "<th>", "</th>", "<b>", "</b>",
    "<p>", "</p>", "<h5>", "</h5>" }

Whitespace == {" ", "\n"}

\* ---- the bodies handed to the function: blocks of a heading and a table
\* in a figure. A cell has its markup (raw) and the text a reader sees (text).
Cell(raw, text) == [raw |-> raw, text |-> text]

CellSize == Cell(<<"Size">>, <<"Size">>)
CellInches == Cell(<<"6.1", " ", "in">>, <<"6.1", " ", "in">>)
CellWeight == Cell(<<"\n", "Weight", " ">>, <<"Weight">>)
CellGrams == Cell(<<" ", "<b>", "170", "</b>", " ", "\n", "g">>, <<"170", " ", "g">>)
CellNote == Cell(<<"approx">>, <<"approx">>)

Td(cell) == [tag |-> "td", cell |-> cell]
Th(cell) == [tag |-> "th", cell |-> cell]

RowNoCell == <<>>
RowOneCell == << Td(CellSize) >>
RowSize == << Td(CellSize), Td(CellInches) >>
RowWeight == << Td(CellWeight), Td(CellGrams) >>
RowThreeCells == << Td(CellWeight), Td(CellGrams), Td(CellNote) >>
RowHeaderAndCell == << Th(CellSize), Td(CellInches) >>

TableRows ==
  { <<>>,
    << RowSize >>,
    << RowNoCell, RowThreeCells >>,
    << RowSize, RowWeight >>,
    << RowHeaderAndCell, RowWeight >>,
    << RowOneCell, RowSize, RowThreeCells >> }

Heading(raw, text) == [raw |-> raw, text |-> text]

Headings ==
  { Heading(<<"Display">>, <<"Display">>),
    Heading(<<" ", "<b>", "Main", "\n", " ", "Camera", "</b>">>, <<"Main", " ", "Camera">>) }

\* How a block is written: heading level, whitespace between its parts,
\* rows wrapped in a tbody or not.
BlockStyles ==
  { [level |-> 2, gap |-> <<>>, tbody |-> FALSE],
    [level |-> 3, gap |-> <<"\n", " ">>, tbody |-> TRUE],
    [level |-> 4, gap |-> <<>>, tbody |-> TRUE] }

Blocks == [style : BlockStyles, heading : Headings, rows : TableRows]

MaxBlocks == 2

BlockBodies == UNION { [1 .. n -> Blocks] : n \in 1 .. MaxBlocks }

\* ---- the content string of a body
HeadingOpen(level) == CASE level = 2 -> "<h2>" [] level = 3 -> "<h3>" [] OTHER -> "<h4>"

HeadingClose(level) == CASE level = 2 -> "</h2>" [] level = 3 -> "</h3>" [] OTHER -> "</h4>"

RECURSIVE Concat(_)
Concat(seqs) == IF seqs = <<>> THEN <<>> ELSE Head(seqs) \o Concat(Tail(seqs))

CellHtml(c) ==
  IF c.tag = "td" THEN <<"<td>">> \o c.cell.raw \o <<"</td>">>
                  ELSE <<"<th>">> \o c.cell.raw \o <<"</th>">>

RowHtml(row) == <<"<tr>">> \o Concat([k \in 1 .. Len(row) |-> CellHtml(row[k])]) \o <<"</tr>">>

TableHtml(b) ==
  LET rows == Concat([k \in 1 .. Len(b.rows) |-> RowHtml(b.rows[k])])
  IN  <<"<table>">>
        \o (IF b.style.tbody THEN <<"<tbody>">> \o rows \o <<"</tbody>">> ELSE rows)
        \o <<"</table>">>

BlockHtml(b) ==
  <<HeadingOpen(b.style.level)>> \o b.heading.raw \o <<HeadingClose(b.style.level)>>
    \o b.style.gap \o <<"<figure>">> \o b.style.gap \o TableHtml(b) \o b.style.gap
    \o <<"</figure>">>

BodyHtml(body) == Concat([k \in 1 .. Len(body) |-> BlockHtml(body[k])])

\* ---- contents without a block: text, a heading or a table alone, a
\* heading that does not come right before the figure, a table outside a
\* figure, a heading of another level, a table that is not closed
FigureHtml == <<"<figure>", "<table>">> \o RowHtml(RowSize) \o <<"</table>", "</figure>">>

BlockFreeContents ==
  { <<>>,
    <<"Display">>,
    <<"<h3>", "Display", "</h3>">>,
    FigureHtml,
    FigureHtml \o <<"<h3>", "Display", "</h3>">>,
    <<"<h3>", "Display", "</h3>", "<p>", "approx", "</p>">> \o FigureHtml,
    <<"<h3>", "Display", "</h3>", "<table>">> \o RowHtml(RowSize) \o <<"</table>">>,
    <<"<h5>", "Display", "</h5>">> \o FigureHtml,
    <<"<h3>", "Main", "</h3>", "<p>", "approx", "</p>", "<h5>", "Display", "</h5>">> \o FigureHtml,
    <<"<h3>", "Display", "</h3>", "<figure>", "<table>">> \o RowHtml(RowSize) }

\* typeof content
JsTypes == {"string", "undefined", "object", "number"}

\* The values handed to extractSpecifications: the content of a body of
\* blocks, a content without a block, or a value that is not a string.
ExtractInputs ==
  { [body |-> body, typeOf |-> "string", content |-> BodyHtml(body)] : body \in BlockBodies }
    \cup { [body |-> <<>>, typeOf |-> "string", content |-> c] : c \in BlockFreeContents }
    \cup { [body |-> <<>>, typeOf |-> t, content |-> <<>>] : t \in JsTypes \ {"string"} }

\* ---- cleanHTMLContent(content)
RECURSIVE CollapseWhitespace(_)
CollapseWhitespace(s) ==
  IF s = <<>> THEN <<>>
  ELSE IF Head(s) \in Whitespace
    THEN IF Len(s) > 1 /\ s[2] \in Whitespace
           THEN CollapseWhitespace(Tail(s))
           ELSE <<" ">> \o CollapseWhitespace(Tail(s))
  ELSE <<Head(s)>> \o CollapseWhitespace(Tail(s))

TrimSpaces(s) ==
  LET a == IF s # <<>> /\ Head(s) \in Whitespace THEN Tail(s) ELSE s
  IN  IF a # <<>> /\ a[Len(a)] \in Whitespace THEN SubSeq(a, 1, Len(a) - 1) ELSE a

CleanHTMLContent(content) ==
  TrimSpaces(CollapseWhitespace(SelectSeq(content, LAMBDA t : t \notin Tags)))

\* ---- the regular expression of extractSpecifications, token by token
Min(S) == CHOOSE x \in S : \A y \in S : x <= y

TokenAt(c, i) == IF i \in 1 .. Len(c) THEN c[i] ELSE ""

\* \s*
RECURSIVE SkipWhitespace(_, _)
SkipWhitespace(c, i) ==
  IF TokenAt(c, i) \in Whitespace THEN SkipWhitespace(c, i + 1) ELSE i

\* ([\s\S]+?)<\/table>\s*<\/figure> with the group starting at t: the
\* positions of a closing </table> that complete the match
TableEnds(c, t) ==
  { r \in (t + 1) .. Len(c) :
      c[r] = "</table>" /\ TokenAt(c, SkipWhitespace(c, r + 1)) = "</figure>" }

FigureAfter(c, q) == SkipWhitespace(c, q + 1)

TableAfter(c, q) == SkipWhitespace(c, FigureAfter(c, q) + 1)

\* ([\s\S]*?)<\/h[2-4]>\s*<figure[^>]*>\s*<table[^>]*>... with the heading
\* opened at p: the positions of a closing heading tag that complete the match
HeadingEnds(c, p) ==
  { q \in (p + 1) .. Len(c) :
      /\ c[q] \in HeadingCloseTags
      /\ TokenAt(c, FigureAfter(c, q)) = "<figure>"
      /\ TokenAt(c, TableAfter(c, q)) = "<table>"
      /\ TableEnds(c, TableAfter(c, q) + 1) # {} }

MatchStarts(c, from) ==
  { p \in from .. Len(c) : c[p] \in HeadingOpenTags /\ HeadingEnds(c, p) # {} }

\* regex.exec(content) from lastIndex `from`: leftmost start, both groups lazy
RegexExec(c, from) ==
  LET p == Min(MatchStarts(c, from))
      q == Min(HeadingEnds(c, p))
      t == TableAfter(c, q) + 1
      r == Min(TableEnds(c, t))
  IN  [ heading |-> SubSeq(c, p + 1, q - 1),
        table |-> SubSeq(c, t, r - 1),
        lastIndex |-> SkipWhitespace(c, r + 1) + 1 ]

RECURSIVE RegexMatches(_, _)
RegexMatches(c, from) ==
  IF MatchStarts(c, from) = {} THEN <<>>
  ELSE LET m == RegexExec(c, from) IN <<m>> \o RegexMatches(c, m.lastIndex)

\* ---- DOMParser: the elements named `open` among tokens `s`, each as the
\* tokens between its tags (getElementsByTagName; elements are not nested)
RECURSIVE ElementsByTagName(_, _, _)
ElementsByTagName(s, open, close) ==
  LET opens == { a \in 1 .. Len(s) : s[a] = open }
  IN  IF opens = {} THEN <<>>
      ELSE LET a == Min(opens)
               closes == { b \in (a + 1) .. Len(s) : s[b] = close }
               b == IF closes = {} THEN Len(s) + 1 ELSE Min(closes)
           IN  <<SubSeq(s, a + 1, b - 1)>> \o
                 ElementsByTagName(SubSeq(s, b + 1, Len(s)), open, close)

\* node.textContent
TextContent(s) == SelectSeq(s, LAMBDA t : t \notin Tags)

RowCounts_TwoOrMore(cells) == Len(cells) >= 2

\* cells.length === 2
RowCounts(cells) == Len(cells) = 2

\* the loop over the rows of one matched table: per row, the number of td
\* cells and the entries pushed
RowVisits(table) ==
  LET rows == ElementsByTagName(<<"<table>">> \o table \o <<"</table>">>, "<tr>", "</tr>")
  IN  [ k \in 1 .. Len(rows) |->
          LET cells == ElementsByTagName(rows[k], "<td>", "</td>")
          IN  [ cells |-> Len(cells),
                pushed |-> IF RowCounts(cells)
                             THEN << [ specification |-> CleanHTMLContent(TextContent(cells[1])),
                                       value |-> CleanHTMLContent(TextContent(cells[2])) ] >>
                             ELSE <<>> ] ]

CategoryDetails(table) ==
  LET visits == RowVisits(table)
  IN  Concat([k \in 1 .. Len(visits) |-> visits[k].pushed])

\* specifications[category] = categoryDetails
Assign(specifications, category, details) ==
  [ k \in DOMAIN specifications \cup {category} |->
      IF k = category THEN details ELSE specifications[k] ]

EmptyObject == [k \in {} |-> <<>>]

RECURSIVE Collect(_, _)
Collect(matches, specifications) ==
  IF matches = <<>> THEN specifications
  ELSE LET category == CleanHTMLContent(Head(matches).heading)
           details == CategoryDetails(Head(matches).table)
       IN  Collect(Tail(matches),
                   IF Len(details) > 0 THEN Assign(specifications, category, details)
                                       ELSE specifications)

\* extractSpecifications(content), with the rows its loop visited
ExtractSpecifications(value) ==
  IF value.typeOf # "string"
    THEN [raised |-> FALSE, specifications |-> EmptyObject, visits |-> <<>>]
    ELSE LET matches == RegexMatches(value.content, 1)
         IN  [ raised |-> FALSE,
               specifications |-> Collect(matches, EmptyObject),
               visits |-> Concat([k \in 1 .. Len(matches) |-> RowVisits(matches[k].table)]) ]

InitExtract ==
  /\ ComponentInit
  /\ searchLog = LogOff
  /\ page = NoPage
  /\ fnInput \in ExtractInputs
  /\ fnOutput = NoValue

CallExtractSpecifications ==
  /\ lastOp.op = "init"
  /\ fnOutput' = ExtractSpecifications(fnInput)
  /\ lastOp' = [op |-> "extractSpecifications", slot |-> -1, slug |-> Undefined]
  /\ UNCHANGED << page, searchLog, params, fetchedDevicesCache, currentSearchResults, searchQueries,
                  selectedDevices, fetchingIndividualDetails, debounceTimeoutRefs, timers,
                  searchInFlight, detailInFlight, effectPending, userActions, burst,
                  serverContent, fnInput >>

NextExtract == CallExtractSpecifications

SpecExtract == InitExtract /\ [][NextExtract]_vars

\* ============================================== renderComparisonTable alone
\* The fixed category list of the table
Categories_WithMainCamera ==
  << <<"General">>, <<"Display">>, <<"Hardware">>, <<"Camera">>, <<"Main", " ", "Camera">>,
     <<"Software">>, <<"Connectivity">>, <<"Sensors">>, <<"Battery">> >>

Categories ==
  << <<"General">>, <<"Display">>, <<"Hardware">>, <<"Camera">>, <<"Software">>,
     <<"Connectivity">>, <<"Sensors">>, <<"Battery">> >>

\* ---- the devices handed to the table
CellType == Cell(<<"Type">>, <<"Type">>)
CellCapacity == Cell(<<"capacity">>, <<"capacity">>)
CellOled == Cell(<<"<b>", "OLED", "</b>">>, <<"OLED">>)
CellMah == Cell(<<"5000", " ", "mAh">>, <<"5000", " ", "mAh">>)
CellBigger == Cell(<<"6.7", " ", "in">>, <<"6.7", " ", "in">>)

RowType == << Td(CellType), Td(CellOled) >>
RowCapacity == << Td(CellCapacity), Td(CellMah) >>
RowSizeBigger == << Td(CellSize), Td(CellBigger) >>

WordPressStyle == [level |-> 3, gap |-> <<"\n", " ">>, tbody |-> TRUE]

TableBlock(name, rows) ==
  [style |-> WordPressStyle, heading |-> Heading(name, name), rows |-> rows]

TableBodies ==
  { << TableBlock(<<"Display">>, << RowSize, RowWeight >>) >>,
    << TableBlock(<<"Display">>, << RowWeight, RowSizeBigger, RowOneCell >>) >>,
    << TableBlock(<<"Battery">>, << RowCapacity, RowType >>),
       TableBlock(<<"Display">>, << RowSize >>) >>,
    << TableBlock(<<"Main", " ", "Camera">>, << RowSize >>) >>,
    << TableBlock(<<"Display">>, << RowType >>),
       TableBlock(<<"Main", " ", "Camera">>, << RowWeight >>) >>,
    << TableBlock(<<"Display">>, << RowSize, RowSizeBigger >>) >>,
    << TableBlock(<<"Battery">>, << RowSizeBigger >>) >> }

NoDevice == [selected |-> FALSE, title |-> "", body |-> <<>>, typeOf |-> "object", content |-> <<>>]

\* A post with a body of blocks, with the empty string as content, or
\* without content
TableDevices ==
  { [selected |-> TRUE, title |-> "Phone", body |-> body, typeOf |-> "string",
     content |-> BodyHtml(body)] : body \in TableBodies }
    \cup { [selected |-> TRUE, title |-> "Phone", body |-> <<>>, typeOf |-> "string",
            content |-> <<>>],
           [selected |-> TRUE, title |-> "", body |-> <<>>, typeOf |-> "undefined",
            content |-> <<>>],
           NoDevice }

\* ---- Array.prototype.sort() without a comparator: by UTF-16 code units
CodeUnits(token) ==
  CASE token = "Size" -> <<83, 105, 122, 101>>
    [] token = "Weight" -> <<87, 101, 105, 103, 104, 116>>
    [] token = "Type" -> <<84, 121, 112, 101>>
    [] token = "capacity" -> <<99, 97, 112, 97, 99, 105, 116, 121>>
    [] token = " " -> <<32>>
    [] OTHER -> <<0>>

StringCodeUnits(s) == Concat([k \in 1 .. Len(s) |-> CodeUnits(s[k])])

RECURSIVE CodeUnitsLess(_, _)
CodeUnitsLess(a, b) ==
  IF b = <<>> THEN FALSE
  ELSE IF a = <<>> THEN TRUE
  ELSE IF Head(a) # Head(b) THEN Head(a) < Head(b)
  ELSE CodeUnitsLess(Tail(a), Tail(b))

StringLess(s, t) == CodeUnitsLess(StringCodeUnits(s), StringCodeUnits(t))

RECURSIVE Sort(_)
Sort(S) ==
  IF S = {} THEN <<>>
  ELSE LET least == CHOOSE x \in S : \A y \in S : x = y \/ StringLess(x, y)
       IN  <<least>> \o Sort(S \ {least})

\* ---- renderComparisonTable
\* selectedDevices[i].content || ""
ContentOrEmpty(device) ==
  IF device.typeOf = "string" /\ device.content # <<>>
    THEN [typeOf |-> "string", content |-> device.content]
    ELSE [typeOf |-> "string", content |-> <<>>]

\* device1Specs, device2Specs
DeviceSpecs(device) ==
  IF device.selected THEN ExtractSpecifications(ContentOrEmpty(device)).specifications
                     ELSE EmptyObject

\* deviceSpecMap[category] || []
CategorySpecs(deviceSpecMap, category) ==
  IF category \in DOMAIN deviceSpecMap THEN deviceSpecMap[category] ELSE <<>>

SpecNames(categorySpecs) == { categorySpecs[k].specification : k \in 1 .. Len(categorySpecs) }

AllSpecs_FirstDeviceOnly(device1Specs, device2Specs) ==
  UNION { SpecNames(CategorySpecs(device1Specs, Categories[c])) : c \in 1 .. Len(Categories) }

\* allSpecs: the names of both devices in the categories of the list
AllSpecs(device1Specs, device2Specs) ==
  UNION { SpecNames(CategorySpecs(device1Specs, Categories[c]))
            \cup SpecNames(CategorySpecs(device2Specs, Categories[c])) : c \in 1 .. Len(Categories) }

SortedAllSpecs_Descending(device1Specs, device2Specs) ==
  LET up == Sort(AllSpecs(device1Specs, device2Specs))
  IN  [k \in 1 .. Len(up) |-> up[Len(up) + 1 - k]]

\* sortedAllSpecs
SortedAllSpecs(device1Specs, device2Specs) == Sort(AllSpecs(device1Specs, device2Specs))

NotAvailable_Dash == <<"-">>

NotAvailable == <<"N/A">>

GetSpecValue_AnyCategory(deviceSpecMap, category, specName) ==
  LET found == UNION { { <<c, k>> : k \in { j \in 1 .. Len(deviceSpecMap[c]) :
                                               deviceSpecMap[c][j].specification = specName } } :
                       c \in DOMAIN deviceSpecMap }
  IN  IF found = {} THEN NotAvailable
      ELSE LET ck == CHOOSE ck \in found : TRUE IN deviceSpecMap[ck[1]][ck[2]].value

\* getSpecValue(deviceSpecMap, category, specName)
GetSpecValue(deviceSpecMap, category, specName) ==
  LET categorySpecs == CategorySpecs(deviceSpecMap, category)
      found == { k \in 1 .. Len(categorySpecs) : categorySpecs[k].specification = specName }
  IN  IF found = {} THEN NotAvailable ELSE categorySpecs[Min(found)].value

\* categorySpecsInUse
CategorySpecsInUse(device1Specs, device2Specs, category) ==
  SelectSeq(SortedAllSpecs(device1Specs, device2Specs),
            LAMBDA specName :
              \/ specName \in SpecNames(CategorySpecs(device1Specs, category))
              \/ specName \in SpecNames(CategorySpecs(device2Specs, category)))

\* One category of the table body: nothing, or the title and its rows
CategorySection(device1Specs, device2Specs, category) ==
  LET inUse == CategorySpecsInUse(device1Specs, device2Specs, category)
  IN  IF Len(inUse) = 0 THEN <<>>
      ELSE << [ category |-> category,
                rows |-> [ k \in 1 .. Len(inUse) |->
                             [ attribute |-> inUse[k],
                               valueA |-> GetSpecValue(device1Specs, category, inUse[k]),
                               valueB |-> GetSpecValue(device2Specs, category, inUse[k]) ] ] ] >>

IsAnyDeviceSelected_Both(devices) == devices[1].selected /\ devices[2].selected

\* selectedDevices[0] || selectedDevices[1]
IsAnyDeviceSelected(devices) == devices[1].selected \/ devices[2].selected

\* selectedDevices[i]?.title || "Device n"
HeaderTitle(device, fallback) ==
  IF device.selected /\ device.title # "" THEN device.title ELSE fallback

\* renderComparisonTable(), as what it renders for selectedDevices = devices
RenderComparisonTable(devices) ==
  LET device1Specs == DeviceSpecs(devices[1])
      device2Specs == DeviceSpecs(devices[2])
  IN  IF IsAnyDeviceSelected(devices)
        THEN [ view |-> "table",
               header |-> << "Specifications", HeaderTitle(devices[1], "Device 1"),
                             HeaderTitle(devices[2], "Device 2") >>,
               specs |-> << device1Specs, device2Specs >>,
               sections |-> Concat([c \in 1 .. Len(Categories) |->
                              CategorySection(device1Specs, device2Specs, Categories[c])]) ]
        ELSE [ view |-> "prompt", header |-> <<>>,
               specs |-> << device1Specs, device2Specs >>, sections |-> <<>> ]

InitTable ==
  /\ ComponentInit
  /\ searchLog = LogOff
  /\ page = NoPage
  /\ fnInput \in [1 .. 2 -> TableDevices]
  /\ fnOutput = NoValue

CallRenderComparisonTable ==
  /\ lastOp.op = "init"
  /\ fnOutput' = RenderComparisonTable(fnInput)
  /\ lastOp' = [op |-> "renderComparisonTable", slot |-> -1, slug |-> Undefined]
  /\ UNCHANGED << page, searchLog, params, fetchedDevicesCache, currentSearchResults, searchQueries,
                  selectedDevices, fetchingIndividualDetails, debounceTimeoutRefs, timers,
                  searchInFlight, detailInFlight, effectPending, userActions, burst,
                  serverContent, fnInput >>

NextTable == CallRenderComparisonTable

SpecTable == InitTable /\ [][NextTable]_vars

\* ================================================ claims C11 .. C15, C17
\* C11: the step in which a detail request of slot i fails (transport error,
\* API error or no post) leaves the slot not loading and without a device.
C11_FailedFetchLeavesSlotEmpty ==
  lastOp.op = "detail_failed" =>
    /\ ~fetchingIndividualDetails[lastOp.slot]
    /\ IsNull(selectedDevices[lastOp.slot])

\* C11 witness: a request of slot 0 failed while the other slot holds a device.
C11_Witness ==
  /\ lastOp.op = "detail_failed" /\ lastOp.slot = 0
  /\ IsNull(selectedDevices[0]) /\ ~fetchingIndividualDetails[0]
  /\ ~IsNull(selectedDevices[1])

\* C12: a slot that holds a device shows no search results (neither the list
\* nor the "No results found." text), whatever its query and the result list.
C12_SelectedSlotShowsNoResults ==
  \A i \in Slots :
    ~IsNull(selectedDevices[i]) => SlotBody(i) \notin {"results", "no_results"}

\* C12 witness: a slot holds a device while its query is non-empty and the
\* result list has a post that matches the query.
C12_Witness ==
  \E i \in Slots :
    /\ ~IsNull(selectedDevices[i])
    /\ searchQueries[i] # EmptyText
    /\ \E k \in 1 .. Len(currentSearchResults) :
         Includes(ToLowerCase(currentSearchResults[k].title), ToLowerCase(searchQueries[i]))

\* C13 (as stated): a slot that holds a device has an empty query, and a
\* slot with a non-empty query holds no device.
C13_SelectedSlotHasEmptyQuery ==
  \A i \in Slots : ~IsNull(selectedDevices[i]) => searchQueries[i] = EmptyText

\* C14: after a text change to the empty string the shared result list is
\* empty, in the state the change produces.
C14_ClearedTextEmptiesResults ==
  (lastOp.op = "input" /\ searchQueries[lastOp.slot] = EmptyText)
    => currentSearchResults = <<>>

\* C14 witness: a slot's text was cleared while the other slot still has a
\* query and no debounce timer or search request is left.
C14_Witness ==
  /\ lastOp.op = "input" /\ searchQueries[lastOp.slot] = EmptyText
  /\ searchQueries[1 - lastOp.slot] # EmptyText
  /\ timers = {} /\ searchInFlight = <<>>
  /\ currentSearchResults = <<>>

\* C15: the response of a detail request of slot i, and a fetch started for
\* slot i by handleSelectDevice, leave the loading flag and the device of the
\* other slot unchanged; so does a fetch the effect starts for slot i while
\* the other slot agrees with its parameter.
C15_SlotFetchesIndependent ==
  [][/\ lastOp'.op \in {"detail_ok", "detail_failed", "select"} =>
          \A j \in Slots \ {lastOp'.slot} :
            /\ fetchingIndividualDetails'[j] = fetchingIndividualDetails[j]
            /\ selectedDevices'[j] = selectedDevices[j]
     /\ effectPending =>
          \A i \in Slots, j \in Slots :
            (i # j /\ SlotWantsSlug(i) /\ SlotConsistent(j)) =>
              /\ fetchingIndividualDetails'[j] = fetchingIndividualDetails[j]
              /\ selectedDevices'[j] = selectedDevices[j]]_vars

\* C15 witness: a request of slot 0 was answered while a request of slot 1
\* is in flight and slot 1 is still loading.
C15_Witness ==
  /\ lastOp.op \in {"detail_ok", "detail_failed"} /\ lastOp.slot = 0
  /\ InFlightOfSlot(detailInFlight, 1) > 0
  /\ fetchingIndividualDetails[1]

\* C17 (as amended): the step in which a search request fails or returns no
\* posts.nodes empties the shared result list, and every slot with a
\* non-empty query, no device and a loading flag that is not set then shows
\* "No results found.".
C17_FailedSearchShowsNoResults ==
  lastOp.op = "search_failed" =>
    /\ currentSearchResults = <<>>
    /\ \A i \in Slots :
         (/\ searchQueries[i] # EmptyText
          /\ IsNull(selectedDevices[i])
          /\ ~fetchingIndividualDetails[i]) => SlotBody(i) = "no_results"

\* C17 witness: a search failed and a slot shows "No results found.".
C17_Witness ==
  /\ lastOp.op = "search_failed"
  /\ \E i \in Slots : Trim(searchQueries[i]) # EmptyText /\ SlotBody(i) = "no_results"

\* C17 as stated: the same for every slot with a non-empty query and no
\* device, its loading flag set or not.
C17_Original_AnySlotWithQuery ==
  lastOp.op = "search_failed" =>
    /\ currentSearchResults = <<>>
    /\ \A i \in Slots :
         (searchQueries[i] # EmptyText /\ IsNull(selectedDevices[i]))
           => SlotBody(i) = "no_results"

\* ------------------------------------------------------------------ C16
\* The failures the claim names: a status outside 200..299, a non-empty
\* errors array, a transport exception (a body that cannot be read as JSON
\* counted with them).
C16_NamedFailure(x) ==
  \/ x.rejects
  \/ x.status < 200 \/ x.status > 299
  \/ ~x.body.json
  \/ x.body.errors.kind = "array" /\ Len(x.body.errors.items) > 0

\* C16 (as stated): fetchGraphQL never raises; it yields null for each of
\* the named failures and the data field of every other response.
C16_NullOnFailureElseData ==
  lastOp.op = "fetchGraphQL" =>
    /\ ~fnOutput.raised
    /\ fnOutput.value = IF C16_NamedFailure(fnInput) THEN "null" ELSE fnInput.body.data

\* ------------------------------------------------------------------ C18
\* C18 (as stated): a cache entry for slug s appears only in the step of a
\* successful detail response for s, and an entry that is present is the
\* same record after every step.
C18_CacheOnlyGrows ==
  [][\A s \in Slugs :
       /\ (IsNull(fetchedDevicesCache[s]) /\ ~IsNull(fetchedDevicesCache'[s]))
            => (lastOp'.op = "detail_ok" /\ lastOp'.slug = s)
       /\ ~IsNull(fetchedDevicesCache[s])
            => fetchedDevicesCache'[s] = fetchedDevicesCache[s]]_vars

\* ------------------------------------------------------------- C19, C20
\* The rows of a body in document order, and the td cells of a row.
BodyRows(body) == Concat([k \in 1 .. Len(body) |-> body[k].rows])

DataCells(row) == SelectSeq(row, LAMBDA c : c.tag = "td")

\* C19: extractSpecifications raises no error, visits the rows of the body
\* in document order, and pushes exactly one entry for a row with exactly two
\* td cells and none for a row with zero, one, three or more.
C19_OnlyTwoCellRowsCount ==
  lastOp.op = "extractSpecifications" =>
    LET rows == BodyRows(fnInput.body)
    IN  /\ ~fnOutput.raised
        /\ Len(fnOutput.visits) = Len(rows)
        /\ \A k \in 1 .. Len(rows) :
             Len(fnOutput.visits[k].pushed) = IF Len(DataCells(rows[k])) = 2 THEN 1 ELSE 0

\* C19 witness: a table with a one-cell, a two-cell and a three-cell row
\* was processed and gave one entry.
C19_Witness ==
  /\ lastOp.op = "extractSpecifications"
  /\ Len(fnInput.body) = 1
  /\ fnInput.body[1].rows = << RowOneCell, RowSize, RowThreeCells >>
  /\ \E c \in DOMAIN fnOutput.specifications : Len(fnOutput.specifications[c]) = 1

\* The pairs of the two-cell rows of a block, in document order.
BlockPairs(b) ==
  LET two == SelectSeq(b.rows, LAMBDA row : Len(DataCells(row)) = 2)
  IN  [ k \in 1 .. Len(two) |->
          [ specification |-> DataCells(two[k])[1].cell.text,
            value |-> DataCells(two[k])[2].cell.text ] ]

Lookup(specifications, category) ==
  IF category \in DOMAIN specifications THEN specifications[category] ELSE <<>>

DistinctHeadings(body) ==
  \A j, k \in 1 .. Len(body) : j # k => body[j].heading.text # body[k].heading.text

\* C20 (as stated): for a body of heading-then-figure/table blocks with
\* different heading texts, the result holds under each block's cleaned
\* heading text the pairs of that block's two-cell rows in document order
\* (no key when there is none), and holds no other key.
C20_BlocksGiveTheirPairs ==
  (lastOp.op = "extractSpecifications" /\ DistinctHeadings(fnInput.body)) =>
    /\ \A k \in 1 .. Len(fnInput.body) :
         Lookup(fnOutput.specifications, fnInput.body[k].heading.text)
           = BlockPairs(fnInput.body[k])
    /\ \A c \in DOMAIN fnOutput.specifications :
         \E k \in 1 .. Len(fnInput.body) : fnInput.body[k].heading.text = c

\* ------------------------------------------------------------- C21, C22
\* The last block of a body whose cleaned heading text is `text`.
LastBlockNamed(body, text) ==
  body[CHOOSE k \in 1 .. Len(body) :
         /\ body[k].heading.text = text
         /\ \A j \in (k + 1) .. Len(body) : body[j].heading.text # text]

\* C21 (as stated): under a heading text that several blocks of the body
\* share the result holds the pairs of the last block with that heading
\* text, and only those.
C21_LastBlockWins ==
  lastOp.op = "extractSpecifications" =>
    \A j, k \in 1 .. Len(fnInput.body) :
      (j # k /\ fnInput.body[j].heading.text = fnInput.body[k].heading.text) =>
        Lookup(fnOutput.specifications, fnInput.body[k].heading.text)
          = BlockPairs(LastBlockNamed(fnInput.body, fnInput.body[k].heading.text))

\* C22 (as stated): every key of the result maps to a non-empty list, and
\* the heading text of a block without a two-cell row is a key only when
\* another block with that heading text has a two-cell row.
C22_NoKeyWithoutTwoCellRow ==
  lastOp.op = "extractSpecifications" =>
    /\ \A c \in DOMAIN fnOutput.specifications : Len(fnOutput.specifications[c]) > 0
    /\ \A k \in 1 .. Len(fnInput.body) :
         (\A j \in 1 .. Len(fnInput.body) :
            fnInput.body[j].heading.text = fnInput.body[k].heading.text
              => BlockPairs(fnInput.body[j]) = <<>>)
           => fnInput.body[k].heading.text \notin DOMAIN fnOutput.specifications

\* ------------------------------------------------------------------ C23
\* C23: for the empty string, for a value that is not a string and for a
\* content without a heading-then-figure/table block, extractSpecifications
\* raises no error and returns the empty mapping.
C23_NoBlockGivesEmptyMapping ==
  (lastOp.op = "extractSpecifications" /\ fnInput.body = <<>>) =>
    /\ ~fnOutput.raised
    /\ DOMAIN fnOutput.specifications = {}

\* C23 witness: a content with headings and a table in a figure, but no
\* heading of level 2 to 4 right before the figure, gave the empty mapping.
C23_Witness ==
  /\ lastOp.op = "extractSpecifications"
  /\ fnInput.typeOf = "string"
  /\ fnInput.content =
       <<"<h3>", "Main", "</h3>", "<p>", "approx", "</p>", "<h5>", "Display", "</h5>">>
         \o FigureHtml
  /\ DOMAIN fnOutput.specifications = {}

\* ------------------------------------------------------------ C24 .. C29
\* The fixed list as the claims give it, and the place of a category in it
FixedCategoryList ==
  << <<"General">>, <<"Display">>, <<"Hardware">>, <<"Camera">>, <<"Software">>,
     <<"Connectivity">>, <<"Sensors">>, <<"Battery">> >>

PlaceInList(category) == CHOOSE i \in 1 .. Len(FixedCategoryList) : FixedCategoryList[i] = category

\* The entries a device has for a category, read off its body: the pairs of
\* the block with that heading (the bodies of the table have one at most)
EntriesOf(device, category) ==
  IF device.selected /\ \E k \in 1 .. Len(device.body) : device.body[k].heading.text = category
    THEN BlockPairs(LastBlockNamed(device.body, category))
    ELSE <<>>

NamesOf(device, category) ==
  { EntriesOf(device, category)[k].specification : k \in 1 .. Len(EntriesOf(device, category)) }

ValueOf(device, category, name) ==
  LET entries == EntriesOf(device, category)
      found == { k \in 1 .. Len(entries) : entries[k].specification = name }
  IN  IF found = {} THEN <<"N/A">> ELSE entries[Min(found)].value

\* C24: the sections of the table are categories of the fixed list, in the
\* order of the list; a category outside the list has no section.
C24_CategoriesFromFixedList ==
  lastOp.op = "renderComparisonTable" =>
    LET sections == fnOutput.sections
    IN  /\ \A k \in 1 .. Len(sections) :
             \E i \in 1 .. Len(FixedCategoryList) : FixedCategoryList[i] = sections[k].category
        /\ \A j, k \in 1 .. Len(sections) :
             j < k => PlaceInList(sections[j].category) < PlaceInList(sections[k].category)

\* C24 witness: one body has Battery before Display, the other has a Main
\* Camera block; the table has the sections Display, Battery.
C24_Witness ==
  /\ lastOp.op = "renderComparisonTable"
  /\ Len(fnInput[1].body) = 2
  /\ fnInput[1].body[1].heading.text = <<"Battery">>
  /\ \E k \in 1 .. Len(fnInput[2].body) : fnInput[2].body[k].heading.text = <<"Main", " ", "Camera">>
  /\ Len(fnOutput.sections) = 2
  /\ fnOutput.sections[1].category = <<"Display">>
  /\ fnOutput.sections[2].category = <<"Battery">>

\* C25: for each category of the fixed list, the rows of its section are the
\* distinct attribute names of either device's entries for it, each once, in
\* ascending order of their code units; there is no section when neither
\* device has an entry.
C25_RowsAreSortedDistinctNames ==
  lastOp.op = "renderComparisonTable" /\ fnOutput.view = "table" =>
    \A i \in 1 .. Len(FixedCategoryList) :
      LET category == FixedCategoryList[i]
          names == NamesOf(fnInput[1], category) \cup NamesOf(fnInput[2], category)
          found == { k \in 1 .. Len(fnOutput.sections) : fnOutput.sections[k].category = category }
      IN  IF names = {} THEN found = {}
          ELSE /\ Cardinality(found) = 1
               /\ LET rows == fnOutput.sections[CHOOSE k \in found : TRUE].rows
                  IN  /\ Len(rows) = Cardinality(names)
                      /\ { rows[k].attribute : k \in 1 .. Len(rows) } = names
                      /\ \A j, k \in 1 .. Len(rows) :
                           j < k => StringLess(rows[j].attribute, rows[k].attribute)

\* C25 witness: the devices list Weight before Size and capacity before
\* Type; the table has Size, Weight under Display and Type, capacity under
\* Battery.
C25_Witness ==
  /\ lastOp.op = "renderComparisonTable"
  /\ Len(fnOutput.sections) = 2
  /\ Len(fnInput[1].body) > 0 /\ fnInput[1].body[1].rows[1] = RowWeight
  /\ Len(fnInput[2].body) > 0 /\ fnInput[2].body[1].rows[1] = RowCapacity
  /\ Len(fnOutput.sections[1].rows) = 2 /\ Len(fnOutput.sections[2].rows) = 2
  /\ [k \in 1 .. 2 |-> fnOutput.sections[1].rows[k].attribute] = << <<"Size">>, <<"Weight">> >>
  /\ [k \in 1 .. 2 |-> fnOutput.sections[2].rows[k].attribute] = << <<"Type">>, <<"capacity">> >>

\* C26: in every row, the value of a device is the value of its entry for
\* the row's attribute in the row's category, and "N/A" when it has none.
C26_ValueOrNotAvailable ==
  lastOp.op = "renderComparisonTable" =>
    \A s \in 1 .. Len(fnOutput.sections) :
      \A k \in 1 .. Len(fnOutput.sections[s].rows) :
        LET row == fnOutput.sections[s].rows[k]
            category == fnOutput.sections[s].category
        IN  /\ row.valueA = ValueOf(fnInput[1], category, row.attribute)
            /\ row.valueB = ValueOf(fnInput[2], category, row.attribute)

\* C26 witness: only the first device has Display/Size, the second has Size
\* under Battery; the row is (Size, 6.1 in, N/A).
C26_Witness ==
  /\ lastOp.op = "renderComparisonTable"
  /\ fnInput[2].selected /\ Len(fnInput[2].body) = 1
  /\ fnInput[2].body[1].heading.text = <<"Battery">>
  /\ fnInput[2].body[1].rows = << RowSizeBigger >>
  /\ \E s \in 1 .. Len(fnOutput.sections) :
       /\ fnOutput.sections[s].category = <<"Display">>
       /\ \E k \in 1 .. Len(fnOutput.sections[s].rows) :
            fnOutput.sections[s].rows[k] =
              [attribute |-> <<"Size">>, valueA |-> <<"6.1", " ", "in">>, valueB |-> <<"N/A">>]

\* C27: the table of the two devices swapped has the same categories and the
\* same attribute at each row, with the two value columns exchanged.
C27_SwapExchangesColumns ==
  lastOp.op = "renderComparisonTable" =>
    LET swapped == RenderComparisonTable(<< fnInput[2], fnInput[1] >>).sections
        sections == fnOutput.sections
    IN  /\ Len(swapped) = Len(sections)
        /\ \A s \in 1 .. Len(sections) :
             /\ swapped[s].category = sections[s].category
             /\ Len(swapped[s].rows) = Len(sections[s].rows)
             /\ \A k \in 1 .. Len(sections[s].rows) :
                  /\ swapped[s].rows[k].attribute = sections[s].rows[k].attribute
                  /\ swapped[s].rows[k].valueA = sections[s].rows[k].valueB
                  /\ swapped[s].rows[k].valueB = sections[s].rows[k].valueA

\* C27 witness: two different devices, a row whose two values differ and a
\* row only the second device has.
C27_Witness ==
  /\ lastOp.op = "renderComparisonTable"
  /\ fnInput[1].selected /\ fnInput[2].selected
  /\ \E s \in 1 .. Len(fnOutput.sections), j, k \in 1 .. 3 :
       /\ j <= Len(fnOutput.sections[s].rows) /\ k <= Len(fnOutput.sections[s].rows)
       /\ fnOutput.sections[s].rows[j].valueA = <<"6.1", " ", "in">>
       /\ fnOutput.sections[s].rows[j].valueB = <<"6.7", " ", "in">>
       /\ fnOutput.sections[s].rows[k].valueA = <<"N/A">>

\* C28: a selected device whose content is the empty string has the empty
\* specification map, and every value of its column is "N/A".
C28_EmptyBodyGivesNotAvailable ==
  lastOp.op = "renderComparisonTable" =>
    /\ (fnInput[1].selected /\ fnInput[1].typeOf = "string" /\ fnInput[1].content = <<>>) =>
         /\ DOMAIN fnOutput.specs[1] = {}
         /\ \A s \in 1 .. Len(fnOutput.sections) :
              \A k \in 1 .. Len(fnOutput.sections[s].rows) :
                fnOutput.sections[s].rows[k].valueA = <<"N/A">>
    /\ (fnInput[2].selected /\ fnInput[2].typeOf = "string" /\ fnInput[2].content = <<>>) =>
         /\ DOMAIN fnOutput.specs[2] = {}
         /\ \A s \in 1 .. Len(fnOutput.sections) :
              \A k \in 1 .. Len(fnOutput.sections[s].rows) :
                fnOutput.sections[s].rows[k].valueB = <<"N/A">>

\* C28 witness: the second device has the empty string as content, the
\* first has two sections; the table has their rows.
C28_Witness ==
  /\ lastOp.op = "renderComparisonTable"
  /\ fnInput[2].selected /\ fnInput[2].typeOf = "string" /\ fnInput[2].content = <<>>
  /\ Len(fnOutput.sections) = 2
  /\ fnOutput.sections[1].rows[1].valueB = <<"N/A">>

\* C29: with no device in either slot the prompt is rendered and there are
\* no rows; with a device in a slot the table is rendered, header included.
C29_PromptOrTable ==
  lastOp.op = "renderComparisonTable" =>
    IF ~fnInput[1].selected /\ ~fnInput[2].selected
      THEN fnOutput.view = "prompt" /\ fnOutput.sections = <<>>
      ELSE fnOutput.view = "table" /\ Len(fnOutput.header) = 3
             /\ fnOutput.header[1] = "Specifications"

\* C29 witness: only the second slot holds a device; the table is rendered
\* with the header Specifications, Device 1, Phone.
C29_Witness ==
  /\ lastOp.op = "renderComparisonTable"
  /\ ~fnInput[1].selected /\ fnInput[2].selected
  /\ fnOutput.view = "table"
  /\ fnOutput.header = << "Specifications", "Device 1", "Phone" >>

\* ------------------------------------------------------------------ C30
\* C30 (as stated): a run of the reconciliation effect starts no request
\* for a slot and slug that already have one in flight, so a selection of
\* a slug that is not cached has one request in all.
C30_OneRequestPerSelection ==
  [][lastOp'.op = "reconcile" =>
       \A i \in Slots, s \in Slugs :
         detailInFlight[i][s] > 0 => detailInFlight'[i][s] <= detailInFlight[i][s]]_vars

\* ==================================================== the paginated feeds
\* The how-to, tech news and mobile screens: a post list loaded page by page
\* from the Content Client.  page holds the state of the screen that is open.
MaxFeedActions == 3      \* taps on a feed screen
MaxFeedInFlight == 2     \* post requests of a feed screen awaiting their response

FeedScreens == {"mobile", "howto", "technews"}

\* The categories the mobile screen shows as tabs
FeedCategories == {"mobile", "samsung"}

\* The category a screen asks for when it is opened
FirstCategory(screen) ==
  IF screen = "mobile" THEN "mobile"
  ELSE IF screen = "howto" THEN "how-to" ELSE "tech-news"

\* The page size
POSTS_PER_PAGE == 5

\* The server holds two pages of posts, a full one and one post more, in
\* every category.
ServerPosts(category) ==
  [k \in 1 .. POSTS_PER_PAGE + 1 |-> [id |-> k, category |-> category]]

\* null as a cursor
NoCursor == 0

\* posts(first, after, where: categoryName): nodes and pageInfo.  A cursor
\* is the position of the last post of the page it came with.
ServerPage(category, after) ==
  LET all == ServerPosts(category)
      last == Min({after + POSTS_PER_PAGE, Len(all)})
  IN  [nodes |-> SubSeq(all, after + 1, last),
       endCursor |-> last,
       hasNextPage |-> last < Len(all)]

\* What fetchGraphQL of a feed screen comes back with: data with the posts,
\* null after setError (transport, HTTP or API error), data without posts.
FeedKinds == {"ok", "failed", "no_posts"}

\* A request for posts in flight, with what its caller holds in its closure:
\* append (mobile) or !isInitialLoad (how-to, tech news), and mobilePosts.
Request(category, cursor, isAppend, posts) ==
  [categorySlug |-> category, after |-> cursor, append |-> isAppend, closure |-> posts]

\* useState initial values of MobilePage, then loadInitialData up to its
\* await; the category effect finds selectedSubCategorySlug null.
MobileMounted ==
  [screen |-> "mobile", posts |-> <<>>, selectedSubCategorySlug |-> Undefined,
   filteredCategories |-> {}, loading |-> TRUE, loadingMore |-> FALSE,
   error |-> Undefined, endCursor |-> NoCursor, hasMorePosts |-> TRUE,
   inFlight |-> <<>>, initialPending |-> TRUE, effectPending |-> FALSE,
   actions |-> 0]

\* useState initial values of HowtoPage / TechNewsPage, then loadHowtoPosts /
\* loadTechNews up to its await.
FeedMounted(screen) ==
  [screen |-> screen, posts |-> <<>>, selectedSubCategorySlug |-> FirstCategory(screen),
   filteredCategories |-> {}, loading |-> TRUE, loadingMore |-> FALSE,
   error |-> Undefined, endCursor |-> NoCursor, hasMorePosts |-> TRUE,
   inFlight |-> << Request(FirstCategory(screen), NoCursor, FALSE, <<>>) >>,
   initialPending |-> FALSE, effectPending |-> FALSE, actions |-> 0]

\* data && data.posts && data.posts.nodes
FeedHasNodes(kind) == kind = "ok"

\* setError(err.message) in the catch of fetchGraphQL
ErrorAfter(kinds) == IF "failed" \in kinds THEN "error" ELSE page.error

\* The post list is on screen: neither the loading screen nor the error screen
ListShown ==
  /\ ~(page.loading /\ page.posts = <<>> /\ page.filteredCategories = {})
  /\ page.error = Undefined

\* loadInitialData after its await: both requests of Promise.all are settled.
LoadInitialDataResumes(categoriesKind, postsKind) ==
  /\ page.screen = "mobile"
  /\ page.initialPending
  /\ LET data == ServerPage("mobile", NoCursor) IN
     page' = [page EXCEPT
       !.initialPending = FALSE,
       !.filteredCategories = IF FeedHasNodes(categoriesKind) THEN FeedCategories ELSE @,
       !.posts = IF FeedHasNodes(postsKind) THEN data.nodes ELSE <<>>,
       !.endCursor = IF FeedHasNodes(postsKind) THEN data.endCursor ELSE @,
       !.hasMorePosts = IF FeedHasNodes(postsKind) THEN data.hasNextPage ELSE FALSE,
       !.selectedSubCategorySlug = "mobile",
       !.loading = FALSE,
       !.error = ErrorAfter({categoriesKind, postsKind}),
       !.effectPending = TRUE]
  /\ lastOp' = [op |-> "initial", slot |-> -1, slug |-> Undefined]
  /\ UNCHANGED << params, fetchedDevicesCache, currentSearchResults, searchQueries,
                  selectedDevices, fetchingIndividualDetails, debounceTimeoutRefs, timers,
                  searchInFlight, detailInFlight, effectPending, userActions, burst,
                  serverContent, fnInput, fnOutput, searchLog >>

\* useEffect on selectedSubCategorySlug: fetchPostsForSelectedCategory(slug,
\* null, false) up to its await.
CategoryEffect ==
  /\ page.screen = "mobile"
  /\ page.effectPending
  /\ Truthy(page.selectedSubCategorySlug)
  /\ Len(page.inFlight) < MaxFeedInFlight
  /\ page' = [page EXCEPT
       !.effectPending = FALSE,
       !.loading = TRUE,
       !.posts = <<>>,
       !.endCursor = NoCursor,
       !.hasMorePosts = TRUE,
       !.error = Undefined,
       !.inFlight = Append(@, Request(page.selectedSubCategorySlug, NoCursor, FALSE, page.posts))]
  /\ lastOp' = [op |-> "category_effect", slot |-> -1, slug |-> Undefined]
  /\ UNCHANGED << params, fetchedDevicesCache, currentSearchResults, searchQueries,
                  selectedDevices, fetchingIndividualDetails, debounceTimeoutRefs, timers,
                  searchInFlight, detailInFlight, effectPending, userActions, burst,
                  serverContent, fnInput, fnOutput, searchLog >>

\* A tap on a category tab: setSelectedSubCategorySlug(category.slug)
SelectCategory(slug) ==
  /\ page.screen = "mobile"
  /\ ~page.effectPending
  /\ ListShown
  /\ slug \in page.filteredCategories
  /\ slug # page.selectedSubCategorySlug
  /\ page.actions < MaxFeedActions
  /\ page' = [page EXCEPT
       !.selectedSubCategorySlug = slug,
       !.effectPending = TRUE,
       !.actions = @ + 1]
  /\ lastOp' = [op |-> "category", slot |-> -1, slug |-> Undefined]
  /\ UNCHANGED << params, fetchedDevicesCache, currentSearchResults, searchQueries,
                  selectedDevices, fetchingIndividualDetails, debounceTimeoutRefs, timers,
                  searchInFlight, detailInFlight, effectPending, userActions, burst,
                  serverContent, fnInput, fnOutput, searchLog >>

\* isInitialLoad of loadHowtoPosts / loadTechNews
IsInitialLoad == page.posts = <<>>

\* handleLoadMore: the button or onEndReached of the list; then
\* fetchPostsForSelectedCategory(slug, endCursor, true), loadHowtoPosts() or
\* loadTechNews() up to its await.
HandleLoadMore ==
  /\ page.screen \in FeedScreens
  /\ ~page.effectPending
  /\ ListShown
  /\ page.hasMorePosts /\ ~page.loading /\ ~page.loadingMore
  /\ page.actions < MaxFeedActions
  /\ Len(page.inFlight) < MaxFeedInFlight
  /\ page' =
       IF page.screen = "mobile"
         THEN [page EXCEPT
                 !.loadingMore = TRUE,
                 !.error = Undefined,
                 !.inFlight = Append(@, Request(page.selectedSubCategorySlug,
                                                page.endCursor, TRUE, page.posts)),
                 !.actions = @ + 1]
         ELSE [page EXCEPT
                 !.loading = IF IsInitialLoad THEN TRUE ELSE @,
                 !.loadingMore = IF IsInitialLoad THEN @ ELSE TRUE,
                 !.error = Undefined,
                 !.inFlight = Append(@, Request(page.selectedSubCategorySlug,
                                                IF IsInitialLoad THEN NoCursor
                                                                 ELSE page.endCursor,
                                                ~IsInitialLoad, <<>>)),
                 !.actions = @ + 1]
  /\ lastOp' = [op |-> "load_more", slot |-> -1, slug |-> Undefined]
  /\ UNCHANGED << params, fetchedDevicesCache, currentSearchResults, searchQueries,
                  selectedDevices, fetchingIndividualDetails, debounceTimeoutRefs, timers,
                  searchInFlight, detailInFlight, effectPending, userActions, burst,
                  serverContent, fnInput, fnOutput, searchLog >>

\* The list after a response with posts: mobile replaces the list unless
\* appending, how-to and tech news always append to the previous list.
PostsAfterNodes(request, nodes) ==
  IF page.screen = "mobile" /\ ~request.append THEN nodes ELSE page.posts \o nodes

\* The list after a response without posts: mobile writes back the
\* mobilePosts of the caller's render when appending, [] otherwise; how-to
\* and tech news write [].
PostsAfterNoNodes(request) ==
  IF page.screen = "mobile" /\ request.append THEN request.closure ELSE <<>>

\* The response of the k-th post request in flight arrives:
\* fetchPostsForSelectedCategory, loadHowtoPosts or loadTechNews after its
\* await.
FeedResponse(k, kind) ==
  /\ page.screen \in FeedScreens
  /\ k \in 1 .. Len(page.inFlight)
  /\ LET request == page.inFlight[k]
         data == ServerPage(request.categorySlug, request.after)
     IN  /\ page' = [page EXCEPT
                !.inFlight = RemoveAt(@, k),
                !.posts = IF FeedHasNodes(kind) THEN PostsAfterNodes(request, data.nodes)
                                                ELSE PostsAfterNoNodes(request),
                !.endCursor = IF FeedHasNodes(kind) THEN data.endCursor ELSE @,
                !.hasMorePosts = IF FeedHasNodes(kind) THEN data.hasNextPage ELSE FALSE,
                !.error = ErrorAfter({kind}),
                !.loading = IF request.append THEN @ ELSE FALSE,
                !.loadingMore = IF request.append THEN FALSE ELSE @]
         /\ lastOp' = [op |-> IF request.append
                                THEN (IF FeedHasNodes(kind) THEN "more_ok" ELSE "more_failed")
                                ELSE (IF FeedHasNodes(kind) THEN "first_ok" ELSE "first_failed"),
                       slot |-> -1, slug |-> Undefined]
  /\ UNCHANGED << params, fetchedDevicesCache, currentSearchResults, searchQueries,
                  selectedDevices, fetchingIndividualDetails, debounceTimeoutRefs, timers,
                  searchInFlight, detailInFlight, effectPending, userActions, burst,
                  serverContent, fnInput, fnOutput, searchLog >>

\* A feed screen is opened
InitFeeds ==
  /\ ComponentInit
  /\ searchLog = LogOff
  /\ page \in {MobileMounted} \cup {FeedMounted(screen) : screen \in {"howto", "technews"}}
  /\ fnInput = NoValue
  /\ fnOutput = NoValue

NextFeeds ==
  \/ \E categoriesKind \in FeedKinds, postsKind \in FeedKinds :
       LoadInitialDataResumes(categoriesKind, postsKind)
  \/ CategoryEffect
  \/ \E slug \in FeedCategories : SelectCategory(slug)
  \/ HandleLoadMore
  \/ \E k \in 1 .. MaxFeedInFlight, kind \in FeedKinds : FeedResponse(k, kind)

SpecFeeds == InitFeeds /\ [][NextFeeds]_vars

\* ---------------------------------------------------------- stray device3
\* The screen opened by a link that carries a third device
InitStray ==
  /\ ComponentInitWith([k \in Slots \cup {Device3} |->
                          IF k = Device3 THEN "phone-a" ELSE Undefined])
  /\ searchLog = LogOff
  /\ page = NoPage
  /\ fnInput = NoValue
  /\ fnOutput = NoValue

SpecStray == InitStray /\ [][Next]_vars

\* ------------------------------------------------------ search history
\* The screen with the history of its searches recorded
InitSearchLog ==
  /\ ComponentInit
  /\ searchLog = LogOn
  /\ page = NoPage
  /\ fnInput = NoValue
  /\ fnOutput = NoValue

SpecSearchLog == InitSearchLog /\ [][Next]_vars

\* ------------------------------------------------- parameters held fixed
\* The screen opened with some navigation parameters and then left alone:
\* the parameters stay, the user does nothing, the effect runs when pending
\* and every detail request is answered, with the post, with no post or
\* with a failure; an editor may change a post on the server meanwhile.
InitHeldFixed ==
  /\ \E initialParams \in [Slots -> Slugs \cup {Undefined}] :
       ComponentInitWith(initialParams)
  /\ searchLog = LogOff
  /\ page = NoPage
  /\ fnInput = NoValue
  /\ fnOutput = NoValue

NextHeldFixed ==
  \/ Reconcile
  \/ \E slug \in Slugs : ServerEdit(slug)
  \/ \E deviceSlug \in Slugs, index \in Slots, kind \in DetailKinds :
       DetailResponse(deviceSlug, index, kind)

SpecHeldFixed ==
  /\ InitHeldFixed
  /\ [][NextHeldFixed]_vars
  /\ WF_vars(Reconcile)
  /\ \A deviceSlug \in Slugs, index \in Slots, kind \in DetailKinds :
       WF_vars(DetailResponse(deviceSlug, index, kind))

\* ------------------------------------------------------------------ C31
\* C31 (as stated): the loading flag of a slot is set exactly when a detail
\* request started for the slot has not completed.
C31_LoadingIffRequestInFlight ==
  \A i \in Slots : fetchingIndividualDetails[i] <=> InFlightOfSlot(detailInFlight, i) > 0

\* ------------------------------------------------------------------ C36
\* A text that is empty or holds whitespace only
C36_Blank(text) == \A k \in 1 .. Len(text) : text[k] = " "

\* C36: a text change to an empty or whitespace-only text starts no timer,
\* issues no search request and leaves the shared result list empty; no
\* timer and no search request ever carries such a text.
C36_BlankTextStartsNoSearch ==
  [][/\ (lastOp'.op = "input" /\ C36_Blank(searchQueries'[lastOp'.slot])) =>
          /\ timers' = timers
          /\ searchInFlight' = searchInFlight
          /\ currentSearchResults' = <<>>
     /\ \A t \in timers' : ~C36_Blank(t.args[1])
     /\ \A k \in 1 .. Len(searchInFlight') : ~C36_Blank(searchInFlight'[k])]_vars

\* C36 witness: after an earlier text change, a slot's text was changed to
\* whitespace; no timer is live, no search is in flight, the list is empty.
C36_Witness ==
  /\ lastOp.op = "input"
  /\ searchQueries[lastOp.slot] = <<" ">>
  /\ userActions >= 2
  /\ timers = {} /\ searchInFlight = <<>>
  /\ currentSearchResults = <<>>

\* ------------------------------------------------------------------ C35
\* C35: a selection or a removal in slot i leaves the other slot's selected
\* device, text, loading flag and navigation parameter as they were; of the
\* navigation parameters it changes at most device(i+1), and device3 only by
\* removing it.
C35_OtherSlotUntouched ==
  [][lastOp'.op \in {"select", "remove"} =>
       /\ \A j \in Slots \ {lastOp'.slot} :
            /\ selectedDevices'[j] = selectedDevices[j]
            /\ searchQueries'[j] = searchQueries[j]
            /\ fetchingIndividualDetails'[j] = fetchingIndividualDetails[j]
            /\ params'[j] = params[j]
       /\ DOMAIN params' = DOMAIN params
       /\ \A k \in DOMAIN params \ Slots :
            params'[k] = params[k] \/ (k = 2 /\ params'[k] = Undefined)]_vars

\* C35 witness: with a device in slot 1 and a stray device3, a device was
\* selected in slot 0.
C35_Witness ==
  /\ lastOp.op = "select" /\ lastOp.slot = 0
  /\ params[0] = lastOp.slug
  /\ ~IsNull(selectedDevices[1]) /\ Truthy(params[1])
  /\ 2 \in DOMAIN params

\* ------------------------------------------------------------------ C32
\* C32 (as stated): from a cleared text, a selection or a removal until the
\* next text change to a non-empty text, the shared result list is empty.
C32_ListStaysEmpty == searchLog.quiet => currentSearchResults = <<>>

\* ------------------------------------------------------------------ C33
\* C33 (as stated): when the last search request in flight has completed,
\* the shared result list holds what the search issued last came back with.
C33_LastIssuedWins ==
  (searchLog.on /\ searchLog.outcome # "none" /\ searchInFlight = <<>>
     /\ lastOp.op \in {"search_ok", "search_failed"}) =>
    currentSearchResults =
      IF searchLog.outcome = "ok" THEN ServerSearch(searchLog.issued) ELSE <<>>

\* ------------------------------------------------------------------ C34
\* No detail request is in flight and the effect has nothing to run.
Quiescent == ~effectPending /\ InFlightTotal(detailInFlight) = 0

\* C34 (as stated): with the parameters fixed, no user action and every
\* request answered, the screen reaches a state with no detail request in
\* flight and no effect pending, and stays there.
C34_ReachesQuiescence == <>[](BoundReached \/ Quiescent)

\* ------------------------------------------------------------------ C37
\* C37 (as stated): a load-more request that fails leaves the loaded posts
\* as they were and sets hasMorePosts to false.
C37_FailedLoadMoreKeepsPosts ==
  [][lastOp'.op = "more_failed" =>
       /\ page'.posts = page.posts
       /\ page'.hasMorePosts = FALSE]_vars

\* ------------------------------------------------------------------ C38
\* C38 (as stated): in the mobile feed, once every request has completed,
\* the list holds posts of the selected category only and the loading flag
\* is false.
C38_ListOfSelectedCategory ==
  (/\ page.screen = "mobile"
   /\ ~page.initialPending /\ ~page.effectPending /\ page.inFlight = <<>>) =>
    /\ \A k \in 1 .. Len(page.posts) :
         page.posts[k].category = page.selectedSubCategorySlug
    /\ ~page.loading

====
